---- MODULE Spec2Model ----
(***************************************************************************)
(* Vibify2: the request queue, the retry wrapper and the recommendation    *)
(* cascades of lib/spotify.ts and of the dashboard's Recommendations       *)
(* component, as state machines whose steps are the stretches of code      *)
(* between two suspension points (await) of the JavaScript event loop.     *)
(***************************************************************************)
EXTENDS Integers, Sequences, FiniteSets, TLC

(***************************************************************************)
(* Bounds of the model and constants of the program.                       *)
(***************************************************************************)
\* number of tasks handed to RequestQueue.add
NumTasks == 5
\* new RequestQueue(3)
maxConcurrent == 3

Tasks == 1..NumTasks
\* what the function of task t resolves to, or fails with: a value of its own
ValueOf(t) == <<"value of task", t>>

VARIABLES
    \* ---- RequestQueue ----
    queue,        \* this.queue: the queuedFn closures, named by their task
    running,      \* this.running
    fn,           \* the function handed to add for each task
    fnState,      \* where each task's function is: "none", "queued", "running", "finished"
    fnOutcome,    \* what each task's function did once it ended
    promise,      \* the promise add returned for each task
    startCount,   \* how often each task's function was invoked
    settleCount,  \* how often resolve or reject was called for each task
    peak,         \* the most task functions ever found in progress at once
    \* ---- retryableSpotifyCall ----
    rpc,            \* where the call is: "idle", "call", "delay", "returned", "thrown"
    maxRetries,     \* parameter maxRetries
    initialDelayMs, \* parameter initialDelayMs
    attempt,        \* the loop variable
    lastError,      \* let lastError
    retryResult,    \* what the call returned or threw
    calls,          \* the invocations of operation: when, and how each ended
    waits,          \* the calls of delay: after which attempt, and for how long
    clock,          \* the time in ms
    \* ---- the remote API ----
    server,         \* what the API holds during a session: the genre seeds it
                    \* advertises and the user's top tracks
    \* ---- getRecommendations ----
    reco,           \* each call of getRecommendations, by its caller: where it
                    \* is, its arguments and locals, the requests it sent, its result
    \* ---- the Recommendations component ----
    recommendations, \* useState<Track[]>([])
    shownBy,         \* the invocation whose setRecommendations the list shown comes from
    obscurityLevel,  \* useState(50)
    loading,         \* useState(false)
    errorMsg,        \* useState<string | null>(null), the state named error
    usingFallback,   \* useState(false)
    debugInfo,       \* useState<any>(null)
    selectedGenres,  \* useState(['pop', 'rock', 'indie'])
    availableGenres, \* useState<string[]>([])
    fetchingGenres,  \* fetchAvailableGenres is awaiting getAvailableGenres
    inv,             \* each invocation of fetchRecommendations or tryWithGenres: where it is, the
                     \* state its closure captured, its locals, the requests it sent
    \* ---- the data functions of lib/spotify.ts ----
    script,          \* the statuses the API answers its requests with, in turn
    served,          \* how many requests of the data functions the API answered
    api,             \* each call of a data function: where it is, its locals,
                     \* the requests answered and the waits made for it
    \* ---- the jwt callback of the NextAuth handler ----
    now,             \* Date.now()
    cookie,          \* the token of the session: what the jwt callback returned last
    jwt,             \* each call of the jwt callback: where it is, its token
                     \* parameter, the refresh requests it sent, its result
    \* ---- the scores ----
    calc,            \* the last call of a score function: its arguments and result
    page             \* the page computing its statistics: where its handler is,
                     \* the tracks and features it fetched, the stats it shows

qvars == <<queue, running, fn, fnState, fnOutcome, promise, startCount, settleCount,
           peak>>
rvars == <<rpc, maxRetries, initialDelayMs, attempt, lastError, retryResult, calls,
           waits, clock>>
gvars == <<server, reco>>
uivars == <<recommendations, shownBy, loading, errorMsg, usingFallback, debugInfo>>
genrevars == <<selectedGenres, availableGenres>>
dvars == <<uivars, obscurityLevel, genrevars, fetchingGenres, inv>>
avars == <<script, served, api>>
jvars == <<now, cookie, jwt>>
svars == <<calc, page>>
vars == <<qvars, rvars, gvars, dvars, avars, jvars, svars>>

\* what a step of one component leaves alone: the state of the others
queueOnly == <<rvars, gvars, dvars, avars, jvars, svars>>
retryOnly == <<qvars, gvars, dvars, avars, jvars, svars>>
recoOnly == <<qvars, rvars, dvars, avars, jvars, svars>>
dashOnly == <<qvars, rvars, avars, jvars, svars>>
apiOnly == <<rvars, gvars, dvars, jvars, svars>>
jwtOnly == <<qvars, rvars, gvars, dvars, avars, svars>>
scoreOnly == <<qvars, rvars, gvars, dvars, avars, jvars>>

(***************************************************************************)
(* RequestQueue                                                            *)
(***************************************************************************)
NoFn == [kind |-> "none"]
NoOutcome == [kind |-> "none"]
NoPromise == [state |-> "none"]
Pending == [state |-> "pending"]

\* the functions add can be handed: one that returns a promise, or one that
\* throws before it returns any
Fns(t) == {[kind |-> "async"], [kind |-> "throws", error |-> ValueOf(t)]}

\* resolve(v) and reject(e) of the promise add creates: a settled promise stays
resolve(p, v) == IF p.state = "pending" THEN [state |-> "resolved", value |-> v] ELSE p
reject(p, e) == IF p.state = "pending" THEN [state |-> "rejected", value |-> e] ELSE p

\* the state of the queue and of its tasks, as one record the methods transform
QState == [queue |-> queue, running |-> running, fn |-> fn, fnState |-> fnState,
           fnOutcome |-> fnOutcome, promise |-> promise,
           startCount |-> startCount, settleCount |-> settleCount, peak |-> peak]

\* this.queue.pop() in place of shift(): the newest closure is taken
pop(q) == [taken |-> q[Len(q)], rest |-> SubSeq(q, 1, Len(q) - 1)]

\* this.queue.shift(): the closure taken, and what is left
shift(q) == [taken |-> Head(q), rest |-> Tail(q)]

Max(a, b) == IF a >= b THEN a ELSE b

\* the task functions in progress: invoked, and not yet settled
InProgress(s) == {t \in Tasks : s.fnState[t] = "running"}

\* catch (error) { reject(error); throw error; } of queuedFn
queuedFnCatch(s, t, e) ==
    [s EXCEPT !.promise[t] = reject(@, e), !.settleCount[t] = @ + 1]

\* const result = await fn(); resolve(result); of queuedFn
queuedFnResolve(s, t, v) ==
    [s EXCEPT !.promise[t] = resolve(@, v), !.settleCount[t] = @ + 1]

\* a finally that does not give the slot back
queuedFnFinallyNoRelease(s) == s

\* finally { this.running--; ... } of queuedFn
queuedFnFinally(s) == [s EXCEPT !.running = @ - 1]

RECURSIVE processNext(_)
\* queuedFn without its this.running++
queuedFnStartNoCount(s, t) ==
    LET s1 == [s EXCEPT !.startCount[t] = @ + 1,
                        !.peak = Max(@, Cardinality(InProgress(s) \cup {t}))]
    IN  IF s.fn[t].kind = "throws"
        THEN processNext(queuedFnFinally(queuedFnCatch(
                 [s1 EXCEPT !.fnState[t] = "finished",
                            !.fnOutcome[t] = [kind |-> "failed", value |-> s.fn[t].error]],
                 t, s.fn[t].error)))
        ELSE [s1 EXCEPT !.fnState[t] = "running"]

\* queuedFn up to its first suspension: this.running++, then fn() is invoked.
\* A function that throws before returning runs catch and finally at once,
\* and finally calls processNext again.
queuedFnStart(s, t) ==
    LET s1 == [s EXCEPT !.running = @ + 1, !.startCount[t] = @ + 1,
                        !.peak = Max(@, Cardinality(InProgress(s) \cup {t}))]
    IN  IF s.fn[t].kind = "throws"
        THEN processNext(queuedFnFinally(queuedFnCatch(
                 [s1 EXCEPT !.fnState[t] = "finished",
                            !.fnOutcome[t] = [kind |-> "failed", value |-> s.fn[t].error]],
                 t, s.fn[t].error)))
        ELSE [s1 EXCEPT !.fnState[t] = "running"]

\* if (this.queue.length > 0 && this.running < this.maxConcurrent)
canAdmit(s) == Len(s.queue) > 0 /\ s.running < maxConcurrent

\* private processNext()
processNext(s) ==
    IF canAdmit(s)
    THEN queuedFnStart([s EXCEPT !.queue = shift(@).rest], shift(s.queue).taken)
    ELSE s

\* an executor that pushes the closure and leaves it there
addExecutorNoStart(s, t, f) ==
    [s EXCEPT !.queue = Append(@, t), !.promise[t] = Pending,
              !.fn[t] = f, !.fnState[t] = "queued"]

\* the executor of add's promise: push the closure, start it if a slot is free
addExecutor(s, t, f) ==
    LET s1 == [s EXCEPT !.queue = Append(@, t), !.promise[t] = Pending,
                        !.fn[t] = f, !.fnState[t] = "queued"]
    IN  IF s1.running < maxConcurrent THEN processNext(s1) ELSE s1

\* queuedFn whose finally does not call processNext
queuedFnSettleNoNext(s, t, ok, v) ==
    LET s1 == [s EXCEPT !.fnState[t] = "finished",
                        !.fnOutcome[t] = [kind |-> IF ok THEN "fulfilled" ELSE "failed",
                                          value |-> v]]
        s2 == IF ok THEN queuedFnResolve(s1, t, v) ELSE queuedFnCatch(s1, t, v)
    IN  queuedFnFinally(s2)

\* queuedFn after its await: the function's promise settled
queuedFnSettle(s, t, ok, v) ==
    LET s1 == [s EXCEPT !.fnState[t] = "finished",
                        !.fnOutcome[t] = [kind |-> IF ok THEN "fulfilled" ELSE "failed",
                                          value |-> v]]
        s2 == IF ok THEN queuedFnResolve(s1, t, v) ELSE queuedFnCatch(s1, t, v)
    IN  processNext(queuedFnFinally(s2))

SetQState(s) ==
    /\ queue' = s.queue
    /\ running' = s.running
    /\ fn' = s.fn
    /\ fnState' = s.fnState
    /\ fnOutcome' = s.fnOutcome
    /\ promise' = s.promise
    /\ startCount' = s.startCount
    /\ settleCount' = s.settleCount
    /\ peak' = s.peak

\* the next task not yet handed to add: tasks are named in submission order
NextTask == Cardinality({t \in Tasks : fnState[t] # "none"}) + 1

\* requestQueue.add(f)
Add(f) ==
    /\ NextTask \in Tasks
    /\ SetQState(addExecutor(QState, NextTask, f))
    /\ UNCHANGED queueOnly

\* the promise of a running task's function settles: fulfilled with the
\* function's value, or rejected with it
Settle(t, ok) ==
    /\ fnState[t] = "running"
    /\ SetQState(queuedFnSettle(QState, t, ok, ValueOf(t)))
    /\ UNCHANGED queueOnly

QueueNext ==
    \/ \E f \in Fns(NextTask) : Add(f)
    \/ \E t \in Tasks, ok \in BOOLEAN : Settle(t, ok)

QueueInit ==
    /\ queue = <<>>
    /\ running = 0
    /\ fn = [t \in Tasks |-> NoFn]
    /\ fnState = [t \in Tasks |-> "none"]
    /\ fnOutcome = [t \in Tasks |-> NoOutcome]
    /\ promise = [t \in Tasks |-> NoPromise]
    /\ startCount = [t \in Tasks |-> 0]
    /\ settleCount = [t \in Tasks |-> 0]
    /\ peak = 0

(***************************************************************************)
(* retryableSpotifyCall                                                    *)
(***************************************************************************)
\* the largest retry budget tried
MaxRetriesBound == 3
\* maxRetries: number = 3
DefaultMaxRetries == 3
\* initialDelayMs: number = 1000
DefaultInitialDelayMs == 1000
\* the initial delays tried: the default, and another
InitialDelays == {DefaultInitialDelayMs, 300}

\* error.statusCode of an error that has none
NoStatus == 0
\* error.headers['retry-after'] of an error without that header
NoHeader == <<"undefined">>
\* the value parseInt gives for a string that starts with no digit
NaN == -1

DigitChars == <<"0", "1", "2", "3", "4", "5", "6", "7", "8", "9">>
IsDigit(c) == \E i \in 1..10 : DigitChars[i] = c
DigitValue(c) == (CHOOSE i \in 1..10 : DigitChars[i] = c) - 1

\* the decimal digits a server writes for a number of seconds
RECURSIVE ToDigits(_)
ToDigits(n) ==
    IF n < 10 THEN <<DigitChars[n + 1]>>
    ELSE Append(ToDigits(n \div 10), DigitChars[(n % 10) + 1])

\* parseInt(s): the number its leading digits write, NaN when it has none
RECURSIVE LeadingDigits(_, _)
LeadingDigits(str, acc) ==
    IF str = <<>> \/ ~IsDigit(Head(str)) THEN acc
    ELSE LeadingDigits(Tail(str), acc * 10 + DigitValue(Head(str)))

parseInt(str) ==
    IF str = <<>> \/ ~IsDigit(Head(str)) THEN NaN ELSE LeadingDigits(str, 0)

\* a product of JavaScript numbers one of which may be NaN
Times(a, b) == IF a = NaN \/ b = NaN THEN NaN ELSE a * b

\* Math.pow(2, n)
RECURSIVE Pow2(_)
Pow2(n) == IF n <= 0 THEN 1 ELSE 2 * Pow2(n - 1)

\* the time setTimeout(resolve, ms) takes: NaN counts as 0
TimerMs(ms) == IF ms = NaN THEN 0 ELSE ms

\* the seconds a server may announce in retry-after
RetryAfterSeconds == {0, 2, 10}
\* the retry-after headers a 429 may carry: none, well-formed ones, an empty
\* one and ones that are no number of seconds
RetryAfterHeaders ==
    {NoHeader} \cup {ToDigits(n) : n \in RetryAfterSeconds}
        \cup {<<>>, <<"x">>, <<"2", "x">>}

StatusCodes == {NoStatus, 401, 403, 429, 500}

\* the errors the n-th invocation of operation can fail with: Error objects,
\* with or without statusCode and headers
OperationErrors(n) ==
    {[id |-> n, statusCode |-> sc, retryAfter |-> h] :
        sc \in StatusCodes \ {429}, h \in {NoHeader, ToDigits(2)}}
    \cup {[id |-> n, statusCode |-> 429, retryAfter |-> h] : h \in RetryAfterHeaders}

\* how the n-th invocation of operation can end
OperationOutcomes(n) ==
    {[ok |-> TRUE, value |-> <<"result of invocation", n>>]}
    \cup {[ok |-> FALSE, error |-> e] : e \in OperationErrors(n)}

NoError == [id |-> 0]
NoResult == [kind |-> "none"]
RateLimitError == [kind |-> "threw", error |-> [message |-> "Rate limit exceeded"]]
UnknownError == [kind |-> "threw", error |-> [message |-> "Unknown error occurred"]]

\* error?.headers?.['retry-after'] ? ... : ...  (an empty string is falsy)
hasRetryAfter(error) == error.retryAfter # NoHeader /\ error.retryAfter # <<>>

\* initialDelayMs * Math.pow(2, attempt - 1)
backoffMs(delayMs, att) == delayMs * Pow2(att - 1)

\* the header's seconds taken for milliseconds
retryAfterMsNoSeconds(error, delayMs, att) ==
    IF hasRetryAfter(error)
    THEN parseInt(error.retryAfter)
    ELSE backoffMs(delayMs, att)

\* const retryAfter = ... of the 429 branch
retryAfterMs(error, delayMs, att) ==
    IF hasRetryAfter(error)
    THEN Times(parseInt(error.retryAfter), 1000)
    ELSE backoffMs(delayMs, att)

\* a check that knows 401 only
isAuthErrorOnly401(error) == error.statusCode = 401

\* error?.statusCode === 401 || error?.statusCode === 403
isAuthError(error) == error.statusCode = 401 \/ error.statusCode = 403

\* the last error rethrown whatever its status
afterLoopAlwaysLast(error) ==
    IF error # NoError THEN [kind |-> "threw", error |-> error] ELSE UnknownError

\* the lines after the loop: what is thrown once the attempts are used up
afterLoop(error) ==
    IF error # NoError
    THEN IF error.statusCode = 429 THEN RateLimitError
         ELSE [kind |-> "threw", error |-> error]
    ELSE UnknownError

\* the catch block with attempt <= maxRetries in place of <
catchBlockOneMore(error, att, budget, delayMs) ==
    IF isAuthError(error)
    THEN [next |-> "thrown", result |-> [kind |-> "threw", error |-> error]]
    ELSE IF error.statusCode = 429 /\ att <= budget
    THEN [next |-> "delay", ms |-> retryAfterMs(error, delayMs, att)]
    ELSE IF att <= budget
    THEN [next |-> "delay", ms |-> backoffMs(delayMs, att)]
    ELSE [next |-> "thrown", result |-> afterLoop(error)]

\* the catch block of the loop for the error of attempt att: throw, wait and
\* go round again, or leave the loop
catchBlock(error, att, budget, delayMs) ==
    IF isAuthError(error)
    THEN [next |-> "thrown", result |-> [kind |-> "threw", error |-> error]]
    ELSE IF error.statusCode = 429 /\ att < budget
    THEN [next |-> "delay", ms |-> retryAfterMs(error, delayMs, att)]
    ELSE IF att < budget
    THEN [next |-> "delay", ms |-> backoffMs(delayMs, att)]
    ELSE [next |-> "thrown", result |-> afterLoop(error)]

\* operation() is invoked
invoke(at, att) ==
    calls' = Append(calls, [at |-> at, attempt |-> att, out |-> NoResult])

\* retryableSpotifyCall(operation, mr, d): the loop is entered and the
\* operation invoked for the first time
RetryCall(mr, d) ==
    /\ rpc = "idle"
    /\ maxRetries' = mr
    /\ initialDelayMs' = d
    /\ attempt' = 1
    /\ rpc' = "call"
    /\ invoke(clock, 1)
    /\ UNCHANGED <<lastError, retryResult, waits, clock, retryOnly>>

\* return await operation(): the operation's promise is fulfilled
OperationFulfils(out) ==
    /\ rpc = "call"
    /\ out.ok
    /\ calls' = [calls EXCEPT ![Len(calls)].out = out]
    /\ rpc' = "returned"
    /\ retryResult' = [kind |-> "returned", value |-> out.value]
    /\ UNCHANGED <<maxRetries, initialDelayMs, attempt, lastError, waits, clock,
                   retryOnly>>

\* catch (error): the operation's promise is rejected
OperationRejects(out) ==
    /\ rpc = "call"
    /\ ~out.ok
    /\ calls' = [calls EXCEPT ![Len(calls)].out = out]
    /\ lastError' = out.error
    /\ LET c == catchBlock(out.error, attempt, maxRetries, initialDelayMs)
       IN  /\ rpc' = c.next
           /\ IF c.next = "delay"
              THEN /\ waits' = Append(waits, [after |-> attempt, ms |-> c.ms])
                   /\ UNCHANGED retryResult
              ELSE /\ retryResult' = c.result
                   /\ UNCHANGED waits
    /\ UNCHANGED <<maxRetries, initialDelayMs, attempt, clock, retryOnly>>

\* await delay(ms) ends: the next attempt invokes the operation again
DelayElapses ==
    /\ rpc = "delay"
    /\ clock' = clock + TimerMs(waits[Len(waits)].ms)
    /\ attempt' = attempt + 1
    /\ rpc' = "call"
    /\ invoke(clock + TimerMs(waits[Len(waits)].ms), attempt + 1)
    /\ UNCHANGED <<maxRetries, initialDelayMs, lastError, retryResult, waits,
                   retryOnly>>

RetryNext ==
    \/ \E mr \in 1..MaxRetriesBound, d \in InitialDelays : RetryCall(mr, d)
    \/ \E out \in OperationOutcomes(Len(calls)) : OperationFulfils(out)
    \/ \E out \in OperationOutcomes(Len(calls)) : OperationRejects(out)
    \/ DelayElapses

RetryInit ==
    /\ rpc = "idle"
    /\ maxRetries = DefaultMaxRetries
    /\ initialDelayMs = DefaultInitialDelayMs
    /\ attempt = 0
    /\ lastError = NoError
    /\ retryResult = NoResult
    /\ calls = <<>>
    /\ waits = <<>>
    /\ clock = 0

(***************************************************************************)
(* The remote API                                                          *)
(***************************************************************************)
\* /^[0-9A-Za-z]{22}$/
IdLength == 22
AlnumChars ==
    {"0", "1", "2", "3", "4", "5", "6", "7", "8", "9",
     "A", "B", "C", "D", "E", "F", "G", "H", "I", "J", "K", "L", "M",
     "N", "O", "P", "Q", "R", "S", "T", "U", "V", "W", "X", "Y", "Z",
     "a", "b", "c", "d", "e", "f", "g", "h", "i", "j", "k", "l", "m",
     "n", "o", "p", "q", "r", "s", "t", "u", "v", "w", "x", "y", "z"}

\* track ids: well-formed ones, one too short, one with a character that is
\* neither letter nor digit
GoodId(c) == [k \in 1..IdLength |-> c]
ShortId == [k \in 1..(IdLength - 1) |-> "s"]
DashedId == [k \in 1..IdLength |-> IF k = 3 THEN "-" ELSE "d"]

\* return ['pop', 'rock', 'indie'] of getAvailableGenres
DefaultGenres == <<"pop", "rock", "indie">>

\* the sessions tried: the genres the API advertises and the ids of the
\* user's top tracks. Four genre combinations to try and no top track; no
\* genre and a top track whose id is none; one genre and six tracks the API
\* knows; the genres that are also the default, and a track the API knows
\* followed by one it does not
Worlds ==
    {[genres |-> <<"acoustic", "pop", "dance", "indie">>, topTracks |-> <<>>],
     [genres |-> <<>>, topTracks |-> <<DashedId>>],
     [genres |-> <<"jazz">>,
      topTracks |-> <<GoodId("a"), GoodId("b"), GoodId("c"), GoodId("d"), GoodId("e"),
                      GoodId("f")>>],
     [genres |-> DefaultGenres, topTracks |-> <<GoodId("a"), GoodId("u")>>]}

\* the tracks GET /v1/tracks/{id} answers OK for
KnownTracks == {GoodId(c) : c \in {"a", "b", "c", "d", "e", "f"}}

\* what getAvailableGenres gives, which never throws for a non-empty token:
\* the genres the API advertises. The default it gives when the request fails
\* is what the API advertises in the last of the sessions
AvailableGenreLists == {server.genres}

(***************************************************************************)
(* The recommendations endpoint, as both cascades see it                   *)
(***************************************************************************)
\* the tracks the answer to request n lists
TracksOf(n) == <<[id |-> <<"track", n, 1>>], [id |-> <<"track", n, 2>>]>>

\* an answer's body: no text, text that is no JSON, or JSON
NoBody == [text |-> "empty", hasTracks |-> FALSE, tracks |-> <<>>]
GarbageBody == [text |-> "garbage", hasTracks |-> FALSE, tracks |-> <<>>]
JsonBody(hasTracks, tracks) == [text |-> "json", hasTracks |-> hasTracks, tracks |-> tracks]

\* how fetch of the recommendations endpoint can end for request n: the
\* request fails, or an answer comes: not OK with an error object, or OK with
\* no body, with garbage, with JSON without tracks, with an empty track list
\* or with tracks
FetchRejected == [rejected |-> TRUE, ok |-> FALSE, body |-> NoBody]
Answer(ok, body) == [rejected |-> FALSE, ok |-> ok, body |-> body]
FetchOutcomes(n) ==
    {FetchRejected,
     Answer(FALSE, JsonBody(FALSE, <<>>)),
     Answer(TRUE, NoBody),
     Answer(TRUE, GarbageBody),
     Answer(TRUE, JsonBody(FALSE, <<>>)),
     Answer(TRUE, JsonBody(TRUE, <<>>)),
     Answer(TRUE, JsonBody(TRUE, TracksOf(n)))}

(***************************************************************************)
(* getRecommendations                                                      *)
(***************************************************************************)
\* the largest limit a direct call is given
MaxLimit == 2
\* validTrackIdRegex.test(id)
validTrackId(id) == Len(id) = IdLength /\ \A k \in 1..Len(id) : id[k] \in AlnumChars

Min(a, b) == IF a <= b THEN a ELSE b
\* array.slice(0, n)
slice0(seq, n) == SubSeq(seq, 1, Min(n, Len(seq)))

\* placeholders that all carry the id fallback-0
createFallbackSameId(limit) ==
    [index \in 1..limit |-> [id |-> <<"fallback-", 0>>]]

\* createFallbackRecommendations(limit)
createFallbackRecommendations(limit) ==
    [index \in 1..limit |-> [id |-> <<"fallback-", index - 1>>]]

\* id.startsWith('fallback-')
startsWithFallback(id) == id[1] = "fallback-"

\* the invocations of fetchRecommendations one mounted component makes
NumInvocations == 2
Invocations == 1..NumInvocations

\* who may call getRecommendations: 0 is a direct call, the others are the
\* invocations of fetchRecommendations
DirectCaller == 0
RecoCallers == {DirectCaller} \cup Invocations

\* requests: the requests sent to /v1/recommendations; answers: how each was
\* answered; call: the seeds the caller gave, which the recursive call replaces
RecoIdle ==
    [pc |-> "idle", accessToken |-> "", seedTracks |-> <<>>, seedGenres |-> <<>>,
     targetPopularity |-> 0, limit |-> 0, validSeedTracks |-> <<>>, i |-> 0,
     requests |-> <<>>, answers |-> <<>>, result |-> <<>>, depth |-> 0,
     call |-> [seedTracks |-> <<>>, seedGenres |-> <<>>]]

\* the arguments of a call of getRecommendations
recoArguments(token, tracks, tp, limit, genres) ==
    [RecoIdle EXCEPT !.accessToken = token, !.seedTracks = tracks, !.targetPopularity = tp,
                     !.limit = limit, !.seedGenres = genres,
                     !.call = [seedTracks |-> tracks, seedGenres |-> genres]]

\* how a request was answered: with an error (the request failed, the status
\* was not OK, the body was no JSON or held no track list), with an empty
\* track list, or with tracks
AnswerKind(out) ==
    IF out.rejected \/ ~out.ok \/ out.body.text # "json" \/ ~out.body.hasTracks THEN "error"
    ELSE IF Len(out.body.tracks) = 0 THEN "empty"
    ELSE "tracks"

\* the answer to the last request is noted
recoAnswered(r, out) == [r EXCEPT !.answers = Append(@, AnswerKind(out))]

\* a request to /v1/recommendations
RecoRequest(kind, seeds, r) ==
    [seedKind |-> kind, seeds |-> seeds, targetPopularity |-> r.targetPopularity,
     limit |-> r.limit]

\* return createFallbackRecommendations(limit)
recoFallback(r) ==
    [r EXCEPT !.pc = "returned", !.result = createFallbackRecommendations(r.limit)]

\* the track-seed loop sends the request of its round i
recoTrackRequest(r, i) ==
    [r EXCEPT !.pc = "trackFetch", !.i = i,
              !.requests = Append(@, RecoRequest("tracks", slice0(r.validSeedTracks, i), r))]

\* if (seedTracks.length > 0) { ... } and the fallback after it
recoTrackPart(r) ==
    IF Len(r.seedTracks) > 0
    THEN LET valid == SelectSeq(r.seedTracks, validTrackId)
         IN  IF Len(valid) = 0
             THEN [r EXCEPT !.pc = "availableGenres"]
             ELSE recoTrackRequest([r EXCEPT !.validSeedTracks = valid],
                                   Min(Len(valid), 5))
    ELSE recoFallback(r)

\* getRecommendations up to its first await, with the arguments held in r
recoEnter(r) ==
    IF r.accessToken = ""
    THEN [r EXCEPT !.pc = "threw"]
    ELSE IF Len(r.seedTracks) = 0 /\ Len(r.seedGenres) = 0
    THEN recoFallback(r)
    ELSE IF Len(r.seedGenres) > 0
    THEN [r EXCEPT !.pc = "genreFetch",
                   !.requests = Append(@, RecoRequest("genres", slice0(r.seedGenres, 5), r))]
    ELSE recoTrackPart(r)

\* the try block around a fetch: what the answer gives, or that it threw
\* (not OK, response.json() failing, or data.tracks.length of undefined)
recoTry(out) ==
    IF out.rejected \/ ~out.ok \/ out.body.text # "json" \/ ~out.body.hasTracks
    THEN [threw |-> TRUE, tracks |-> <<>>]
    ELSE [threw |-> FALSE, tracks |-> out.body.tracks]

\* the genre request is answered
recoAfterGenre(r, out) ==
    LET got == recoTry(out)
    IN  IF got.threw THEN recoTrackPart(r)
        ELSE [r EXCEPT !.pc = "returned", !.result = got.tracks]

\* the track request of round i is answered
recoAfterTrack(r, out) ==
    LET got == recoTry(out)
    IN  IF ~got.threw THEN [r EXCEPT !.pc = "returned", !.result = got.tracks]
        ELSE IF r.i - 1 > 0 THEN recoTrackRequest(r, r.i - 1)
        ELSE recoFallback(r)

\* getAvailableGenres answered, no seed track being valid: the recursive
\* call with the first three genres, or the fallback
recoAfterAvailableGenres(r, genres) ==
    IF Len(genres) > 0
    THEN recoEnter([r EXCEPT !.seedTracks = <<>>, !.seedGenres = slice0(genres, 3),
                             !.depth = @ + 1])
    ELSE recoFallback(r)

\* the seed lists and genre lists of a direct call
SeedTrackLists ==
    {<<>>, <<ShortId, DashedId>>, <<GoodId("a"), DashedId, GoodId("b")>>,
     <<GoodId("a"), GoodId("b"), GoodId("c"), GoodId("d"), GoodId("e"), GoodId("f")>>}
SeedGenreLists == {<<>>, <<"pop">>, <<"a", "b", "c", "d", "e", "f">>}

\* getRecommendations(accessToken, seedTracks, targetPopularity, limit, seedGenres)
RecoCall(token, tracks, tp, limit, genres) ==
    /\ reco[DirectCaller].pc = "idle"
    /\ reco' = [reco EXCEPT ![DirectCaller] =
                   recoEnter(recoArguments(token, tracks, tp, limit, genres))]
    /\ UNCHANGED <<server, recoOnly>>

\* await fetch(...) of the genre request ends
RecoGenreAnswer(c, out) ==
    /\ reco[c].pc = "genreFetch"
    /\ reco' = [reco EXCEPT ![c] = recoAfterGenre(recoAnswered(@, out), out)]
    /\ UNCHANGED <<server, recoOnly>>

\* await fetch(...) of a track request ends
RecoTrackAnswer(c, out) ==
    /\ reco[c].pc = "trackFetch"
    /\ reco' = [reco EXCEPT ![c] = recoAfterTrack(recoAnswered(@, out), out)]
    /\ UNCHANGED <<server, recoOnly>>

\* await getAvailableGenres(accessToken) ends
RecoAvailableGenres(c, genres) ==
    /\ reco[c].pc = "availableGenres"
    /\ reco' = [reco EXCEPT ![c] = recoAfterAvailableGenres(@, genres)]
    /\ UNCHANGED <<server, recoOnly>>

RecoSteps(c) ==
    \/ \E out \in FetchOutcomes(Len(reco[c].requests)) : RecoGenreAnswer(c, out)
    \/ \E out \in FetchOutcomes(Len(reco[c].requests)) : RecoTrackAnswer(c, out)
    \/ \E genres \in AvailableGenreLists : RecoAvailableGenres(c, genres)

RecoNext ==
    \/ \E token \in {"", "token"}, tracks \in SeedTrackLists, limit \in 0..MaxLimit,
          genres \in SeedGenreLists : RecoCall(token, tracks, 50, limit, genres)
    \/ RecoSteps(DirectCaller)

RecoInit == reco = [c \in RecoCallers |-> RecoIdle]

\* the session of the specifications in which the API plays no part
IdleServer == server = [genres |-> <<>>, topTracks |-> <<>>]
AnyServer == server \in Worlds

(***************************************************************************)
(* The Recommendations component: fetchRecommendations                     *)
(***************************************************************************)
\* useState(50)
InitialObscurity == 50
\* the values the slider is moved to
ObscurityLevels == {InitialObscurity, 90}
\* limit=20 of the requests, and the 20 of getRecommendations(..., 20, ...)
DashLimit == 20
\* Array(20) of the catch block
CatchFallbackCount == 20

NoMessage == "null"
NoTopTracksMessage ==
    "No top tracks found to base recommendations on. Try listening to more music!"
CouldNotFindMessage ==
    "Spotify couldn't find recommendations for these tracks. This often happens in Development Mode."
FailedMessage == "Failed to get recommendations. Please try again later."
\* `Couldn't get recommendations with these genres: ${genres.join(', ')}`
CouldNotGetMessage == "Couldn't get recommendations with these genres"

\* debugInfo: null, or an object, of which the model keeps the kind of method
NoDebug == [method |-> "null"]
DebugOf(method) == [method |-> method]

\* array.includes(x)
Includes(seq, x) == \E k \in 1..Len(seq) : seq[k] = x

\* combo.filter(g => availableGenres.includes(g))
filterAvailable(combo, available) == SelectSeq(combo, LAMBDA g : Includes(available, g))

\* const genresToTry = [...].filter(combo => combo.length > 0)
genresToTry(available) ==
    SelectSeq(<<filterAvailable(<<"pop", "rock", "indie">>, available),
                filterAvailable(<<"hip-hop", "electronic", "dance">>, available),
                filterAvailable(<<"alternative", "indie", "pop">>, available),
                slice0(available, 3)>>,
              LAMBDA combo : Len(combo) > 0)

\* Math.max(0, Math.min(100, 100 - obscurityLevel))
clampedPopularity(level) == Max(0, Min(100, 100 - level))

\* validSeedTracks[0] of an empty array
Undefined == <<"undefined">>

\* const trackCombosToTry = [...].filter(combo => combo && combo.length > 0)
trackCombosToTry(valid) ==
    SelectSeq(<< <<IF Len(valid) > 0 THEN valid[1] ELSE Undefined>>,
                 slice0(valid, 2), slice0(valid, 3), valid >>,
              LAMBDA combo : Len(combo) > 0)

\* a request fetchRecommendations sends to /v1/recommendations itself
DashRequest(kind, seeds, level) ==
    [seedKind |-> kind, seeds |-> seeds, targetPopularity |-> clampedPopularity(level),
     limit |-> DashLimit]

\* text && text.trim() ? JSON.parse(text) : {}
dashParse(out) ==
    IF out.body.text = "empty" THEN [threw |-> FALSE, hasTracks |-> FALSE, tracks |-> <<>>]
    ELSE IF out.body.text = "garbage" THEN [threw |-> TRUE, hasTracks |-> FALSE, tracks |-> <<>>]
    ELSE [threw |-> FALSE, hasTracks |-> out.body.hasTracks, tracks |-> out.body.tracks]

\* response.ok && parsedData.tracks, the length of the list not being asked
dashWonAnyList(out) ==
    LET parsed == dashParse(out)
    IN  ~parsed.threw /\ out.ok /\ parsed.hasTracks

\* response.ok && parsedData.tracks && parsedData.tracks.length > 0
dashWon(out) ==
    LET parsed == dashParse(out)
    IN  ~parsed.threw /\ out.ok /\ parsed.hasTracks /\ Len(parsed.tracks) > 0

\* the tracks an OK answer lists, none for any other answer
ListedTracks(out) ==
    IF ~out.rejected /\ out.ok /\ out.body.text = "json" /\ out.body.hasTracks
    THEN out.body.tracks
    ELSE <<>>

\* requests: the requests the invocation sent to /v1/recommendations itself;
\* answers: for each that was answered, the tracks an OK answer listed;
\* askedTopTracks: whether it came to call getTopTracks
InvIdle ==
    [pc |-> "idle", obscurityLevel |-> 0, selectedGenres |-> <<>>, genresToTry |-> <<>>,
     g |-> 0, genreDebugInfo |-> NoDebug, seedTracks |-> <<>>, validSeedTracks |-> <<>>,
     invalidSeedTracks |-> <<>>, v |-> 0, trackCombosToTry |-> <<>>, t |-> 0,
     trackDebugInfo |-> NoDebug, requests |-> <<>>, answers |-> <<>>,
     askedTopTracks |-> FALSE, outcome |-> "none"]

\* fetchRecommendations is over: its locals are gone, what it did stays
finished(r, outcome) ==
    [InvIdle EXCEPT !.pc = "done", !.outcome = outcome, !.obscurityLevel = r.obscurityLevel,
                    !.genresToTry = r.genresToTry, !.requests = r.requests,
                    !.answers = r.answers, !.askedTopTracks = r.askedTopTracks]

\* how getTopTracks can end: it throws, or gives the user's top tracks, of
\* which the model keeps the ids
TopTracksOutcomes ==
    {[rejected |-> TRUE, items |-> <<>>], [rejected |-> FALSE, items |-> server.topTracks]}

\* how the validation request for a track id can end
ValidateOutcomes(id) == IF id \in KnownTracks THEN {"ok"} ELSE {"notOk", "rejected"}

\* the invocations not yet made: they are made in the order of their names
Started == {i \in Invocations : inv[i].pc # "idle"}
InFlight == {i \in Invocations : inv[i].pc \notin {"idle", "done"}}
NextInvocation == Cardinality(Started) + 1

\* fetchRecommendations up to its first await, in a render that sees level
startInvocation(level) ==
    /\ NextInvocation \in Invocations
    /\ loading' = TRUE
    /\ errorMsg' = NoMessage
    /\ usingFallback' = FALSE
    /\ debugInfo' = NoDebug
    /\ inv' = [inv EXCEPT ![NextInvocation] =
                  [InvIdle EXCEPT !.pc = "availableGenres", !.obscurityLevel = level,
                                  !.selectedGenres = selectedGenres]]
    /\ UNCHANGED <<recommendations, shownBy, genrevars, server, reco, dashOnly>>

\* the effects after the first render: useEffect(..., [status]) calls
\* fetchAvailableGenres, useEffect(..., [session, obscurityLevel, status])
\* calls fetchRecommendations
Mount ==
    /\ Started = {}
    /\ fetchingGenres' = TRUE
    /\ startInvocation(obscurityLevel)
    /\ UNCHANGED obscurityLevel

\* await getAvailableGenres(session.accessToken) of fetchAvailableGenres ends
FetchAvailableGenres(genres) ==
    /\ fetchingGenres
    /\ fetchingGenres' = FALSE
    /\ availableGenres' = genres
    /\ LET defaultGenres == filterAvailable(<<"pop", "rock", "indie">>, genres)
       IN  selectedGenres' = IF Len(defaultGenres) > 0 THEN slice0(defaultGenres, 3)
                             ELSE IF Len(genres) > 0 THEN slice0(genres, 3)
                             ELSE selectedGenres
    /\ UNCHANGED <<uivars, obscurityLevel, inv, server, reco, dashOnly>>

\* onChange of the slider, and the effect of the render it causes
SetObscurityLevel(level) ==
    /\ Started # {}
    /\ level # obscurityLevel
    /\ obscurityLevel' = level
    /\ startInvocation(level)
    /\ UNCHANGED fetchingGenres

\* onClick of Refresh, which loading disables
Refresh ==
    /\ Started # {}
    /\ ~loading
    /\ startInvocation(obscurityLevel)
    /\ UNCHANGED <<obscurityLevel, fetchingGenres>>

\* onClick of Try These Genres, shown once genres are there and disabled by
\* loading or an empty selection: tryWithGenres(selectedGenres) up to its await
TryWithGenres ==
    /\ Len(availableGenres) > 0
    /\ ~loading /\ Len(selectedGenres) > 0
    /\ NextInvocation \in Invocations
    /\ loading' = TRUE
    /\ errorMsg' = NoMessage
    /\ usingFallback' = FALSE
    /\ inv' = [inv EXCEPT ![NextInvocation] =
                  [InvIdle EXCEPT !.pc = "tryWithGenres", !.obscurityLevel = obscurityLevel,
                                  !.selectedGenres = selectedGenres]]
    /\ reco' = [reco EXCEPT ![NextInvocation] =
                   recoEnter(recoArguments("token", <<>>, 100 - obscurityLevel, DashLimit,
                                           selectedGenres))]
    /\ UNCHANGED <<recommendations, shownBy, debugInfo, obscurityLevel, genrevars, fetchingGenres,
                   server, dashOnly>>

\* await getRecommendations(...) of tryWithGenres ends, and tryWithGenres
\* with it
TryWithGenresReturns(i) ==
    /\ inv[i].pc = "tryWithGenres"
    /\ reco[i].pc = "returned"
    /\ LET recommendedTracks == reco[i].result
           isFallback == Len(recommendedTracks) > 0
                             /\ startsWithFallback(recommendedTracks[1].id)
       IN  /\ debugInfo' = DebugOf("Manual Genre Seeds")
           /\ usingFallback' = IF isFallback THEN TRUE ELSE usingFallback
           /\ errorMsg' = IF isFallback THEN CouldNotGetMessage ELSE errorMsg
           /\ recommendations' = recommendedTracks
           /\ shownBy' = i
           /\ loading' = FALSE
           /\ inv' = [inv EXCEPT ![i] = finished(inv[i], "manual")]
    /\ UNCHANGED <<obscurityLevel, genrevars, fetchingGenres, server, reco, dashOnly>>

\* catch (error) { ... } finally { setLoading(false) } of fetchRecommendations
catchAndFinally(i, r) ==
    /\ errorMsg' = FailedMessage
    /\ usingFallback' = TRUE
    /\ recommendations' = createFallbackRecommendations(CatchFallbackCount)
    /\ shownBy' = i
    /\ loading' = FALSE
    /\ inv' = [inv EXCEPT ![i] = finished(r, "caught")]
    /\ UNCHANGED <<debugInfo, obscurityLevel, genrevars, fetchingGenres, server, reco, dashOnly>>

\* a step that touches no state of the component but the invocation's own
invStep(i, r) ==
    /\ inv' = [inv EXCEPT ![i] = r]
    /\ UNCHANGED <<uivars, obscurityLevel, genrevars, fetchingGenres, server, reco, dashOnly>>

\* the answer to the invocation's last request is noted
answered(r, out) == [r EXCEPT !.answers = Append(@, ListedTracks(out))]

\* the genre loop sends the request of combination g
sendGenreRequest(r, g) ==
    [r EXCEPT !.pc = "genreFetch", !.g = g,
              !.requests = Append(@, DashRequest("genres", r.genresToTry[g], r.obscurityLevel))]

\* the genre loop is entered, or gone round again, with combination g next
genreLoop(r, g) ==
    IF g <= Len(r.genresToTry) THEN sendGenreRequest(r, g)
    ELSE [r EXCEPT !.pc = "topTracks", !.askedTopTracks = TRUE]

\* await getAvailableGenres(session.accessToken) ends
DashAvailableGenres(i, genres) ==
    /\ inv[i].pc = "availableGenres"
    /\ invStep(i, genreLoop([inv[i] EXCEPT !.genresToTry = genresToTry(genres)], 1))

\* await fetch(genreUrl) and await genreResponse.text() end
DashGenreAnswer(i, out) ==
    /\ inv[i].pc = "genreFetch"
    /\ IF out.rejected THEN catchAndFinally(i, answered(inv[i], out))
       ELSE LET r == answered(inv[i], out)
                info == IF dashParse(out).threw THEN r.genreDebugInfo
                        ELSE DebugOf("Genre Seeds")
            IN  IF dashWon(out)
                THEN /\ recommendations' = dashParse(out).tracks
                     /\ shownBy' = i
                     /\ debugInfo' = info
                     /\ loading' = FALSE
                     /\ inv' = [inv EXCEPT ![i] = finished(r, "genre")]
                     /\ UNCHANGED <<errorMsg, usingFallback, obscurityLevel,
                                    genrevars, fetchingGenres, server, reco, dashOnly>>
                ELSE invStep(i, [r EXCEPT !.pc = "genreDelay", !.genreDebugInfo = info])

\* the 500 ms after a genre attempt are over
DashGenreDelay(i) ==
    /\ inv[i].pc = "genreDelay"
    /\ invStep(i, genreLoop(inv[i], inv[i].g + 1))

\* the validation loop asks for seed track v
validateLoop(r, v) ==
    IF v <= Len(r.seedTracks) THEN [r EXCEPT !.pc = "validate", !.v = v]
    ELSE LET combos == trackCombosToTry(r.validSeedTracks)
         IN  [r EXCEPT !.pc = "trackFetch", !.t = 1, !.trackCombosToTry = combos,
                       !.requests = Append(@, DashRequest("tracks", combos[1], r.obscurityLevel))]

\* await getTopTracks(session.accessToken) ends
DashTopTracks(i, res) ==
    /\ inv[i].pc = "topTracks"
    /\ IF res.rejected THEN catchAndFinally(i, inv[i])
       ELSE IF Len(res.items) = 0
       THEN /\ errorMsg' = NoTopTracksMessage
            /\ loading' = FALSE
            /\ inv' = [inv EXCEPT ![i] = finished(inv[i], "noTopTracks")]
            /\ UNCHANGED <<recommendations, shownBy, usingFallback, debugInfo, obscurityLevel,
                           genrevars, fetchingGenres, server, reco, dashOnly>>
       ELSE invStep(i, validateLoop([inv[i] EXCEPT !.seedTracks = slice0(res.items, 5)], 1))

\* await fetch(`.../v1/tracks/${trackId}`) ends: OK, not OK, or it throws
DashValidateAnswer(i, res) ==
    /\ inv[i].pc = "validate"
    /\ LET r == inv[i]
           id == r.seedTracks[r.v]
           r1 == IF res = "ok" THEN [r EXCEPT !.validSeedTracks = Append(@, id)]
                 ELSE [r EXCEPT !.invalidSeedTracks = Append(@, id)]
       IN  invStep(i, validateLoop(r1, r.v + 1))

\* await fetch(url) and await response.text() of a track attempt end
DashTrackAnswer(i, out) ==
    /\ inv[i].pc = "trackFetch"
    /\ IF out.rejected THEN catchAndFinally(i, answered(inv[i], out))
       ELSE LET r == answered(inv[i], out)
                info == IF dashParse(out).threw THEN r.trackDebugInfo
                        ELSE DebugOf("Track Seeds")
            IN  IF dashWon(out)
                THEN /\ recommendations' = dashParse(out).tracks
                     /\ shownBy' = i
                     /\ debugInfo' = info
                     /\ loading' = FALSE
                     /\ inv' = [inv EXCEPT ![i] = finished(r, "track")]
                     /\ UNCHANGED <<errorMsg, usingFallback, obscurityLevel,
                                    genrevars, fetchingGenres, server, reco, dashOnly>>
                ELSE invStep(i, [r EXCEPT !.pc = "trackDelay", !.trackDebugInfo = info])

\* the 500 ms after a track attempt are over: the next combination, or the
\* call of getRecommendations as a last resort
DashTrackDelay(i) ==
    /\ inv[i].pc = "trackDelay"
    /\ LET r == inv[i]
       IN  IF r.t + 1 <= Len(r.trackCombosToTry)
           THEN invStep(i, [r EXCEPT !.pc = "trackFetch", !.t = r.t + 1,
                                     !.requests = Append(@, DashRequest("tracks",
                                         r.trackCombosToTry[r.t + 1], r.obscurityLevel))])
           ELSE /\ inv' = [inv EXCEPT ![i].pc = "getRecommendations"]
                /\ reco' = [reco EXCEPT ![i] =
                       recoEnter(recoArguments("token", r.seedTracks, 100 - r.obscurityLevel,
                                               DashLimit, r.selectedGenres))]
                /\ UNCHANGED <<uivars, obscurityLevel, genrevars, fetchingGenres, server, dashOnly>>

\* await getRecommendations(...) ends, and fetchRecommendations with it
DashGetRecommendations(i) ==
    /\ inv[i].pc = "getRecommendations"
    /\ reco[i].pc = "returned"
    /\ LET recommendedTracks == reco[i].result
           isFallback == Len(recommendedTracks) > 0
                             /\ startsWithFallback(recommendedTracks[1].id)
           r == inv[i]
       IN  /\ usingFallback' = IF isFallback THEN TRUE ELSE usingFallback
           /\ errorMsg' = IF isFallback THEN CouldNotFindMessage ELSE errorMsg
           /\ recommendations' = recommendedTracks
           /\ shownBy' = i
           /\ debugInfo' = IF r.trackDebugInfo = NoDebug /\ r.genreDebugInfo = NoDebug
                            THEN DebugOf("Fallback")
                            ELSE IF r.trackDebugInfo # NoDebug THEN r.trackDebugInfo
                            ELSE r.genreDebugInfo
           /\ loading' = FALSE
           /\ inv' = [inv EXCEPT ![i] = finished(r, "lastResort")]
    /\ UNCHANGED <<obscurityLevel, genrevars, fetchingGenres, server, reco, dashOnly>>

DashNext ==
    \/ Mount
    \/ \E level \in ObscurityLevels : SetObscurityLevel(level)
    \/ Refresh
    \/ \E genres \in AvailableGenreLists : FetchAvailableGenres(genres)
    \/ TryWithGenres
    \/ \E i \in Invocations : TryWithGenresReturns(i)
    \/ \E i \in Invocations, genres \in AvailableGenreLists : DashAvailableGenres(i, genres)
    \/ \E i \in Invocations :
          \E out \in FetchOutcomes(Len(inv[i].requests)) : DashGenreAnswer(i, out)
    \/ \E i \in Invocations : DashGenreDelay(i)
    \/ \E i \in Invocations, res \in TopTracksOutcomes : DashTopTracks(i, res)
    \/ \E i \in Invocations :
          /\ inv[i].pc = "validate"
          /\ \E res \in ValidateOutcomes(inv[i].seedTracks[inv[i].v]) :
                DashValidateAnswer(i, res)
    \/ \E i \in Invocations :
          \E out \in FetchOutcomes(Len(inv[i].requests)) : DashTrackAnswer(i, out)
    \/ \E i \in Invocations : DashTrackDelay(i)
    \/ \E i \in Invocations : DashGetRecommendations(i)
    \/ \E i \in Invocations : RecoSteps(i)

DashInit ==
    /\ recommendations = <<>>
    /\ shownBy = 0
    /\ obscurityLevel = InitialObscurity
    /\ loading = FALSE
    /\ errorMsg = NoMessage
    /\ usingFallback = FALSE
    /\ debugInfo = NoDebug
    /\ selectedGenres = DefaultGenres
    /\ availableGenres = <<>>
    /\ fetchingGenres = FALSE
    /\ inv = [i \in Invocations |-> InvIdle]

(***************************************************************************)
(* The data functions: getTopTracks, getUserPlaylists, getTrackFeatures,   *)
(* validateToken                                                           *)
(***************************************************************************)
\* the calls of data functions made
NumApiCalls == 2
ApiCalls == 1..NumApiCalls

\* chunkArray(trackIds, 100)
ChunkSize == 100
\* await delay(300) between chunks
ChunkDelayMs == 300
\* the three scope checks of validateToken
NumScopeChecks == 3

\* a request that fails before any answer comes
NetworkFailure == 0

\* the statuses the API answers with, one request after the other, the last
\* one for good
Scripts ==
    {<<200>>, <<401>>, <<403>>, <<500>>, <<NetworkFailure>>, <<403, 200>>, <<200, 403>>,
     <<200, 200, 200, 403>>}

\* the status the next request to be answered meets
NextStatus == script[Min(served + 1, Len(script))]

\* a slice that takes the element at i + size too
sliceFromInclusive(array, i, size) == SubSeq(array, i + 1, Min(i + size + 1, Len(array)))

\* array.slice(i, i + size), i counted from 0
sliceFrom(array, i, size) == SubSeq(array, i + 1, Min(i + size, Len(array)))

\* chunkArray(array, size)
RECURSIVE chunksFrom(_, _, _)
chunksFrom(array, i, size) ==
    IF i < Len(array)
    THEN <<sliceFrom(array, i, size)>> \o chunksFrom(array, i + size, size)
    ELSE <<>>
chunkArray(array, size) == chunksFrom(array, 0, size)

\* the lists of track ids getTrackFeatures is given: none, one, a full chunk,
\* a full chunk and one more
TrackIdLists == {[k \in 1..n |-> k] : n \in {0, 1, ChunkSize, ChunkSize + 1}}

\* the record of default values returned in place of features
DefaultFeatures == [danceability |-> "0.5", tempo |-> "120"]
\* trackIds.map(() => ({ ... }))
fallbackFeatures(trackIds) == [k \in 1..Len(trackIds) |-> DefaultFeatures]
\* data.audio_features of the answer to a request for chunk
featuresOf(chunk) == [k \in 1..Len(chunk) |-> [featuresOf |-> chunk[k]]]

\* new Error(`Spotify API error: ${response.status} ...`), or the TypeError of
\* a failed fetch: neither has a statusCode or headers
apiError(n, status) ==
    [id |-> n, statusCode |-> NoStatus, retryAfter |-> NoHeader, status |-> status]
\* error.statusCode === 403 || error.message.includes('403') || ...
mentions403(error) == error.statusCode = 403 \/ error.status = 403

\* http: the requests answered for the call, in order; waits: the backoff
\* waits made for it
ApiIdle ==
    [pc |-> "idle", kind |-> "none", trackIds |-> <<>>, chunks |-> <<>>, k |-> 0,
     allFeatures |-> <<>>, hasError |-> FALSE, task |-> 0, rpc |-> "none", attempt |-> 0,
     pending |-> 0, http |-> <<>>, waits |-> <<>>, result |-> NoResult]

ApiStarted == {c \in ApiCalls : api[c].pc # "idle"}
NextApiCall == Cardinality(ApiStarted) + 1

\* the calls of requestQueue.add a call of a data function can come to make
tasksNeeded(kind, trackIds, useFallbackFeatures) ==
    IF kind = "validateToken" THEN 0
    ELSE IF kind = "getTrackFeatures"
    THEN IF useFallbackFeatures THEN 0 ELSE Len(chunkArray(trackIds, ChunkSize))
    ELSE 1
tasksClaimed ==
    LET need(c) == IF api[c].pc = "idle" THEN 0
                   ELSE IF api[c].kind = "getTrackFeatures" THEN Len(api[c].chunks)
                   ELSE IF api[c].kind = "validateToken" THEN 0 ELSE 1
        sum[n \in 0..NumApiCalls] == IF n = 0 THEN 0 ELSE sum[n - 1] + need(n)
    IN  sum[NumApiCalls]

\* the request of a call that is awaiting an answer right now, if any: the
\* operation's fetch once the queue has started the task, or a direct fetch
awaitsQueued(c) ==
    api[c].pc = "task" /\ api[c].rpc = "call" /\ fnState[api[c].task] = "running"
awaitsDirect(c) == api[c].pc \in {"probe", "me"}
outboundOf(c) ==
    IF awaitsQueued(c) \/ awaitsDirect(c) THEN 1
    ELSE IF api[c].pc = "scopes" THEN api[c].pending
    ELSE 0
\* the requests to the API that are in flight
outboundInFlight ==
    LET sum[n \in 0..NumApiCalls] == IF n = 0 THEN 0 ELSE sum[n - 1] + outboundOf(n)
    IN  sum[NumApiCalls]

\* the answer to a request of the call is noted
apiAnswered(r, endpoint, ids, status, queued) ==
    [r EXCEPT !.http = Append(@, [endpoint |-> endpoint, ids |-> ids, status |-> status,
                                  queued |-> queued])]

\* requestQueue.add(() => retryableSpotifyCall(...)): the call waits for the
\* promise of add; the first attempt is made when the queue starts the task
enterTask(r, t) == [r EXCEPT !.pc = "task", !.task = t, !.rpc = "call", !.attempt = 1]

\* return trackIds.map(() => ({ ... }))
returnFallback(r) ==
    [r EXCEPT !.pc = "done", !.rpc = "none",
              !.result = [kind |-> "returned", value |-> fallbackFeatures(r.trackIds)]]

\* the loop over the chunks comes to chunk k: its probe request is sent, or
\* the loop is over and what was collected is returned, or the fallback
toChunk(r, k) ==
    IF k <= Len(r.chunks) THEN [r EXCEPT !.pc = "probe", !.rpc = "none", !.k = k]
    ELSE IF Len(r.allFeatures) = 0 THEN returnFallback(r)
    ELSE [r EXCEPT !.pc = "done", !.rpc = "none",
                   !.result = [kind |-> "returned", value |-> r.allFeatures]]

\* getTopTracks(accessToken) and getUserPlaylists(accessToken)
CallDataFunction(kind) ==
    /\ NextApiCall \in ApiCalls
    /\ tasksClaimed + 1 <= NumTasks
    /\ api' = [api EXCEPT ![NextApiCall] = enterTask([ApiIdle EXCEPT !.kind = kind], NextTask)]
    /\ SetQState(addExecutor(QState, NextTask, [kind |-> "async"]))
    /\ UNCHANGED <<script, served, apiOnly>>

\* getTrackFeatures(accessToken, trackIds) up to its first await, with
\* NEXT_PUBLIC_USE_FALLBACK_FEATURES being 'true' or not
CallGetTrackFeatures(trackIds, useFallbackFeatures) ==
    /\ NextApiCall \in ApiCalls
    /\ tasksClaimed + tasksNeeded("getTrackFeatures", trackIds, useFallbackFeatures) <= NumTasks
    /\ LET r == [ApiIdle EXCEPT !.kind = "getTrackFeatures", !.trackIds = trackIds]
       IN  api' = [api EXCEPT ![NextApiCall] =
                      IF Len(trackIds) = 0
                      THEN [r EXCEPT !.pc = "done",
                                     !.result = [kind |-> "returned", value |-> <<>>]]
                      ELSE IF useFallbackFeatures THEN returnFallback(r)
                      ELSE toChunk([r EXCEPT !.chunks = chunkArray(trackIds, ChunkSize)], 1)]
    /\ UNCHANGED <<script, served, qvars, apiOnly>>

\* validateToken(accessToken) up to its first await
CallValidateToken ==
    /\ NextApiCall \in ApiCalls
    /\ api' = [api EXCEPT ![NextApiCall] = [ApiIdle EXCEPT !.kind = "validateToken",
                                                           !.pc = "me"]]
    /\ UNCHANGED <<script, served, qvars, apiOnly>>

\* the endpoint a data function asks, and the ids its request carries
endpointOf(r) ==
    IF r.kind = "getTopTracks" THEN "me/top/tracks"
    ELSE IF r.kind = "getUserPlaylists" THEN "me/playlists"
    ELSE "audio-features"
idsOf(r) == IF r.kind = "getTrackFeatures" THEN r.chunks[r.k] ELSE <<>>

\* the promise of add is fulfilled with value: the data functions return it,
\* getTrackFeatures adds it to allFeatures and waits before the next chunk
afterTaskFulfilled(r, value) ==
    IF r.kind = "getTrackFeatures"
    THEN LET r1 == [r EXCEPT !.allFeatures = @ \o value]
         IN  IF Len(r.chunks) > 1 THEN [r1 EXCEPT !.pc = "chunkDelay", !.rpc = "none"]
             ELSE toChunk(r1, r.k + 1)
    ELSE [r EXCEPT !.pc = "done", !.rpc = "none",
                   !.result = [kind |-> "returned", value |-> value]]

\* the promise of add is rejected with thrown: the data functions let it
\* through, getTrackFeatures catches it
afterTaskRejected(r, thrown) ==
    IF r.kind = "getTrackFeatures"
    THEN LET r1 == [r EXCEPT !.hasError = TRUE]
         IN  IF mentions403(thrown.error) THEN returnFallback(r1) ELSE toChunk(r1, r.k + 1)
    ELSE [r EXCEPT !.pc = "done", !.rpc = "none", !.result = thrown]

\* await fetch(...) of the probe request of getTrackFeatures ends
ProbeAnswered(c) ==
    /\ api[c].pc = "probe"
    /\ served' = served + 1
    /\ LET r == apiAnswered(api[c], "audio-features", <<api[c].chunks[api[c].k][1]>>,
                            NextStatus, FALSE)
       IN  IF NextStatus = NetworkFailure
           THEN /\ api' = [api EXCEPT ![c] = toChunk([r EXCEPT !.hasError = TRUE], r.k + 1)]
                /\ UNCHANGED qvars
           ELSE IF NextStatus = 403
           THEN /\ api' = [api EXCEPT ![c] = returnFallback(r)]
                /\ UNCHANGED qvars
           ELSE /\ api' = [api EXCEPT ![c] = enterTask(r, NextTask)]
                /\ SetQState(addExecutor(QState, NextTask, [kind |-> "async"]))
    /\ UNCHANGED <<script, apiOnly>>

\* await fetch(...) of the operation ends, and with it the attempt of
\* retryableSpotifyCall: the operation returns the data or throws, the loop
\* returns, waits or throws, and when it is over queuedFn and the caller go on
RequestAnswered(c) ==
    /\ awaitsQueued(c)
    /\ served' = served + 1
    /\ LET r == apiAnswered(api[c], endpointOf(api[c]), idsOf(api[c]), NextStatus, TRUE)
           value == IF r.kind = "getTrackFeatures" THEN featuresOf(idsOf(r)) ELSE <<"items">>
           error == apiError(Len(r.http), NextStatus)
           caught == catchBlock(error, r.attempt, DefaultMaxRetries, DefaultInitialDelayMs)
       IN  IF NextStatus = 200
           THEN /\ api' = [api EXCEPT ![c] = afterTaskFulfilled(r, value)]
                /\ SetQState(queuedFnSettle(QState, r.task, TRUE, value))
           ELSE IF caught.next = "delay"
           THEN /\ api' = [api EXCEPT ![c] =
                              [r EXCEPT !.rpc = "delay",
                                        !.waits = Append(@, [after |-> r.attempt,
                                                             ms |-> caught.ms])]]
                /\ UNCHANGED qvars
           ELSE /\ api' = [api EXCEPT ![c] = afterTaskRejected(r, caught.result)]
                /\ SetQState(queuedFnSettle(QState, r.task, FALSE, caught.result.error))
    /\ UNCHANGED <<script, apiOnly>>

\* await delay(waitTime) of retryableSpotifyCall ends: the next attempt
BackoffElapses(c) ==
    /\ api[c].pc = "task" /\ api[c].rpc = "delay"
    /\ api' = [api EXCEPT ![c].rpc = "call", ![c].attempt = @ + 1]
    /\ UNCHANGED <<script, served, qvars, apiOnly>>

\* await delay(300) of getTrackFeatures ends: the next chunk
ChunkDelayElapses(c) ==
    /\ api[c].pc = "chunkDelay"
    /\ api' = [api EXCEPT ![c] = toChunk(@, @.k + 1)]
    /\ UNCHANGED <<script, served, qvars, apiOnly>>

\* await fetch('.../v1/me') and await response.json() of validateToken end:
\* not valid, or the three scope checks are sent at once
MeAnswered(c) ==
    /\ api[c].pc = "me"
    /\ served' = served + 1
    /\ LET r == apiAnswered(api[c], "me", <<>>, NextStatus, FALSE)
       IN  api' = [api EXCEPT ![c] =
                      IF NextStatus = 200
                      THEN [r EXCEPT !.pc = "scopes", !.pending = NumScopeChecks]
                      ELSE [r EXCEPT !.pc = "done",
                                     !.result = [kind |-> "returned", value |-> "not valid"]]]
    /\ UNCHANGED <<script, qvars, apiOnly>>

\* one of the scope checks of validateToken is answered; after the last one
\* Promise.all is fulfilled and validateToken returns
ScopeAnswered(c) ==
    /\ api[c].pc = "scopes"
    /\ served' = served + 1
    /\ LET r == apiAnswered(api[c], "scope check", <<>>, NextStatus, FALSE)
       IN  api' = [api EXCEPT ![c] =
                      IF r.pending = 1
                      THEN [r EXCEPT !.pc = "done", !.pending = 0,
                                     !.result = [kind |-> "returned", value |-> "valid"]]
                      ELSE [r EXCEPT !.pending = @ - 1]]
    /\ UNCHANGED <<script, qvars, apiOnly>>

ApiNext ==
    \/ \E kind \in {"getTopTracks", "getUserPlaylists"} : CallDataFunction(kind)
    \/ \E trackIds \in TrackIdLists, useFallbackFeatures \in BOOLEAN :
          CallGetTrackFeatures(trackIds, useFallbackFeatures)
    \/ CallValidateToken
    \/ \E c \in ApiCalls : ProbeAnswered(c)
    \/ \E c \in ApiCalls : RequestAnswered(c)
    \/ \E c \in ApiCalls : BackoffElapses(c)
    \/ \E c \in ApiCalls : ChunkDelayElapses(c)
    \/ \E c \in ApiCalls : MeAnswered(c)
    \/ \E c \in ApiCalls : ScopeAnswered(c)

ApiInit ==
    /\ served = 0
    /\ api = [c \in ApiCalls |-> ApiIdle]

\* the API of the specifications in which the data functions play no part
IdleApi == script = <<200>>
AnyApi == script \in Scripts

(***************************************************************************)
(* The jwt callback of the NextAuth handler (api/auth/[...nextauth]):      *)
(* the sign in, the reuse of a token that has not expired, and the         *)
(* refresh-token grant.                                                    *)
(***************************************************************************)
\* calls of the jwt callback followed
NumJwtCalls == 4
JwtCalls == 1..NumJwtCalls
\* the time in ms up to which the clock is followed, and the steps it makes
MaxNow == 2000
ClockSteps == {500, 1000}

\* a number that is not there (undefined), and a string that is not there
Absent == -2
NoString == "undefined"
\* the number a value converts to: undefined gives NaN
Number(x) == IF x = Absent THEN NaN ELSE x
\* a sum of JavaScript numbers one of which may be NaN
Plus(a, b) == IF a = NaN \/ b = NaN THEN NaN ELSE a + b
\* a number that counts as false in a condition: undefined, NaN and 0
Falsy(x) == x \in {Absent, NaN, 0}

\* account.expires_in ? Number(account.expires_in) : 3600
DefaultExpiresIn == 3600
expiresInOf(account) ==
    IF Falsy(account.expires_in) THEN DefaultExpiresIn ELSE Number(account.expires_in)

\* the token of someone who never signed in
NoSession ==
    [accessToken |-> NoString, refreshToken |-> NoString,
     accessTokenExpires |-> Absent, user |-> NoString, error |-> NoString]
\* the account the provider hands over at a sign in, and no account
NoAccount == [access_token |-> NoString, refresh_token |-> NoString, expires_in |-> Absent]
Accounts ==
    [access_token : {"access token of the sign in"},
     refresh_token : {"refresh token of the sign in"},
     expires_in : {Absent, 1}]
\* the arguments of the callback: account and user at a sign in, neither afterwards
JwtArguments ==
    {[account |-> a, user |-> "user"] : a \in Accounts}
        \cup {[account |-> NoAccount, user |-> NoString]}

\* what the token endpoint does with a refresh request: the request fails,
\* or it is answered, ok or not, with a body that is JSON or not
NoResponse ==
    [kind |-> "none", ok |-> FALSE, access_token |-> NoString,
     refresh_token |-> NoString, expires_in |-> Absent]
TokenResponses ==
    {[kind |-> "network failure", ok |-> FALSE, access_token |-> NoString,
      refresh_token |-> NoString, expires_in |-> Absent],
     [kind |-> "not json", ok |-> FALSE, access_token |-> NoString,
      refresh_token |-> NoString, expires_in |-> Absent],
     [kind |-> "json", ok |-> FALSE, access_token |-> NoString,
      refresh_token |-> NoString, expires_in |-> Absent],
     [kind |-> "json", ok |-> TRUE, access_token |-> "refreshed access token",
      refresh_token |-> NoString, expires_in |-> 1],
     [kind |-> "json", ok |-> TRUE, access_token |-> "refreshed access token",
      refresh_token |-> "rotated refresh token", expires_in |-> Absent]}

JwtIdle ==
    [pc |-> "idle", signIn |-> FALSE, token |-> NoSession, at |-> 0,
     requests |-> <<>>, response |-> NoResponse, result |-> NoSession]

\* the calls made so far, and the next one
JwtStarted == {c \in JwtCalls : jwt[c].pc # "idle"}
NextJwtCall == Cardinality(JwtStarted) + 1

\* if (account && user)
isSignIn(account, user) == account # NoAccount /\ user # NoString

\* the token of the sign-in branch
signInToken(account, user, t) ==
    [accessToken |-> account.access_token,
     refreshToken |-> account.refresh_token,
     accessTokenExpires |-> Plus(t, Times(expiresInOf(account), 1000)),
     user |-> user,
     error |-> NoString]

\* token.accessTokenExpires && Date.now() <= token.accessTokenExpires
stillValidInclusive(token, t) ==
    ~Falsy(token.accessTokenExpires) /\ t <= token.accessTokenExpires

\* token.accessTokenExpires && Date.now() < token.accessTokenExpires
stillValid(token, t) ==
    ~Falsy(token.accessTokenExpires) /\ t < token.accessTokenExpires

\* the POST of refreshAccessToken to the token endpoint
refreshRequest(token) ==
    [url |-> "https://accounts.spotify.com/api/token",
     grant_type |-> "refresh_token",
     refresh_token |-> token.refreshToken]

\* refreshAccessToken taking data.refresh_token whether it is there or not
refreshedTokenReplacing(token, data, t) ==
    [token EXCEPT
        !.accessToken = data.access_token,
        !.refreshToken = data.refresh_token,
        !.accessTokenExpires = Plus(t, Times(Number(data.expires_in), 1000))]

\* the token refreshAccessToken returns when all went well
refreshedToken(token, data, t) ==
    [token EXCEPT
        !.accessToken = data.access_token,
        !.refreshToken =
            IF data.refresh_token # NoString THEN data.refresh_token ELSE token.refreshToken,
        !.accessTokenExpires = Plus(t, Times(Number(data.expires_in), 1000))]

\* a catch block that returns the token as it was
refreshErrorTokenSilent(token) == token

\* the token refreshAccessToken returns from its catch block
refreshErrorToken(token) == [token EXCEPT !.error = "RefreshAccessTokenError"]

\* callbacks.session: the session built from a token
sessionOf(token) ==
    [error |-> IF token.error # NoString THEN token.error ELSE NoString,
     accessToken |-> token.accessToken,
     user |-> token.user]

\* the callback returns: its token is the token of the session from now on
jwtReturn(c, r, token) ==
    /\ jwt' = [jwt EXCEPT ![c] = [r EXCEPT !.pc = "done", !.result = token]]
    /\ cookie' = token

\* the jwt callback up to its return or up to the await of refreshAccessToken's
\* fetch; without account and user it is called for the session there is
JwtCallback(args) ==
    LET c == NextJwtCall
        token == cookie
        r == [JwtIdle EXCEPT
                !.signIn = isSignIn(args.account, args.user),
                !.token = token,
                !.at = now]
    IN  /\ c \in JwtCalls
        /\ ~isSignIn(args.account, args.user) => cookie # NoSession
        /\ IF isSignIn(args.account, args.user)
           THEN jwtReturn(c, r, signInToken(args.account, args.user, now))
           ELSE IF stillValid(token, now)
           THEN jwtReturn(c, r, token)
           ELSE /\ jwt' = [jwt EXCEPT ![c] =
                        [r EXCEPT !.pc = "fetch",
                                  !.requests = Append(@, refreshRequest(token))]]
                /\ UNCHANGED cookie
        /\ UNCHANGED now
        /\ UNCHANGED jwtOnly

\* await fetch(...) of refreshAccessToken ends: rejected, or with a response
\* whose body is read next
RefreshFetchSettles(c, response) ==
    LET r == jwt[c]
    IN  /\ r.pc = "fetch"
        /\ IF response.kind = "network failure"
           THEN jwtReturn(c, [r EXCEPT !.response = response], refreshErrorToken(r.token))
           ELSE /\ jwt' = [jwt EXCEPT ![c] = [r EXCEPT !.pc = "json", !.response = response]]
                /\ UNCHANGED cookie
        /\ UNCHANGED now
        /\ UNCHANGED jwtOnly

\* await response.json() ends, and refreshAccessToken with it
RefreshBodyRead(c) ==
    LET r == jwt[c]
    IN  /\ r.pc = "json"
        /\ IF r.response.kind = "json" /\ r.response.ok
           THEN jwtReturn(c, r, refreshedToken(r.token, r.response, now))
           ELSE jwtReturn(c, r, refreshErrorToken(r.token))
        /\ UNCHANGED now
        /\ UNCHANGED jwtOnly

\* time passes
ClockAdvances(ms) ==
    /\ now + ms <= MaxNow
    /\ now' = now + ms
    /\ UNCHANGED <<cookie, jwt>>
    /\ UNCHANGED jwtOnly

JwtNext ==
    \/ \E args \in JwtArguments : JwtCallback(args)
    \/ \E c \in JwtCalls, response \in TokenResponses : RefreshFetchSettles(c, response)
    \/ \E c \in JwtCalls : RefreshBodyRead(c)
    \/ \E ms \in ClockSteps : ClockAdvances(ms)

JwtInit ==
    /\ now = 0
    /\ cookie = NoSession
    /\ jwt = [c \in JwtCalls |-> JwtIdle]

(***************************************************************************)
(* The scores of lib/spotify.ts and the statistics the dashboard, the time *)
(* machine and the playlist analyzer compute with them.  Valence, energy   *)
(* and the mood score are counted in hundredths; popularity, the obscurity *)
(* score and the diversity score are whole numbers.                        *)
(***************************************************************************)
\* how far beyond their ranges the arguments of the score functions are taken
MaxBeyond == 20
\* how many genres a list handed to calculateDiversityScore holds at most
MaxGenres == 25
\* hundredths in a unit
Scale == 100

\* Math.max(0, Math.min(100, popularity))
calculateObscurityOfPopularity(popularity) == Max(0, Min(100, popularity))

\* calculateObscurityScore(popularity)
calculateObscurityScore(popularity) == Max(0, Min(100, 100 - popularity))

\* (uniqueGenres.size / 20) * 100, without Math.min
calculateDiversityUnbounded(genres) ==
    (Cardinality({genres[i] : i \in 1..Len(genres)}) * 100) \div 20

\* calculateDiversityScore(genres): size / 20 * 100 is size * 5
calculateDiversityScore(genres) ==
    LET uniqueGenres == {genres[i] : i \in 1..Len(genres)}
    IN  Min((Cardinality(uniqueGenres) * 100) \div 20, 100)

\* ((valence - energy) / 2) * 100, clamped
calculateMoodDifference(valence, energy) ==
    Max(0, Min(100 * Scale, ((valence - energy) * 100) \div 2))

\* calculateMoodScore(valence, energy), arguments and result in hundredths:
\* (valence + energy) * 100 is even, so the division is exact
calculateMoodScore(valence, energy) ==
    Max(0, Min(100 * Scale, ((valence + energy) * 100) \div 2))

\* the arguments tried
Popularities == (0 - MaxBeyond)..(100 + MaxBeyond)
Hundredths == {5 * k - MaxBeyond : k \in 0..((Scale + 2 * MaxBeyond) \div 5)}
\* a list of n genres of which the first k are different
GenreList(n, k) == [i \in 1..n |-> ToString(i % k)]
GenreLists == {GenreList(n, k) : n \in 0..MaxGenres, k \in {3, MaxGenres}}

NoCall == [fn |-> "none", args |-> <<>>, result |-> 0]

CalculateObscurityScore(popularity) ==
    /\ calc' = [fn |-> "calculateObscurityScore", args |-> <<popularity>>,
                result |-> calculateObscurityScore(popularity)]
    /\ UNCHANGED page
    /\ UNCHANGED scoreOnly

CalculateDiversityScore(genres) ==
    /\ calc' = [fn |-> "calculateDiversityScore", args |-> <<genres>>,
                result |-> calculateDiversityScore(genres)]
    /\ UNCHANGED page
    /\ UNCHANGED scoreOnly

CalculateMoodScore(valence, energy) ==
    /\ calc' = [fn |-> "calculateMoodScore", args |-> <<valence, energy>>,
                result |-> calculateMoodScore(valence, energy)]
    /\ UNCHANGED page
    /\ UNCHANGED scoreOnly

ScoreNext ==
    \/ \E popularity \in Popularities : CalculateObscurityScore(popularity)
    \/ \E genres \in GenreLists : CalculateDiversityScore(genres)
    \/ \E valence \in Hundredths, energy \in Hundredths : CalculateMoodScore(valence, energy)

\* ---- fetchMusicData, fetchTimeRangeData, analyzePlaylist ----
Pages == {"dashboard", "time machine", "playlist analyzer"}

\* the popularity of the tracks fetched, in order: every popularity alone,
\* some pairs and a triple; a track may lack the field
TrackLists ==
    {<<p>> : p \in (0..100) \cup {Absent}}
        \cup {<<p, q>> : p, q \in {0, 40, 100}}
        \cup {<<>>, <<0, 0, 1>>}

\* the features fetched, valence and energy in hundredths, null for a track
\* without features
NullFeature == [valence |-> Absent, energy |-> Absent]
FeatureLists ==
    {<<>>,
     <<[valence |-> 50, energy |-> 50]>>,
     <<[valence |-> 80, energy |-> 20], NullFeature, [valence |-> 40, energy |-> 0]>>,
     <<NullFeature>>}

\* the sessions the pages are given
Sessions ==
    {sessionOf(NoSession),
     sessionOf([NoSession EXCEPT !.accessToken = "access token of the sign in",
                                 !.user = "user"]),
     sessionOf([NoSession EXCEPT !.accessToken = "access token of the sign in",
                                 !.user = "user",
                                 !.error = "RefreshAccessTokenError"])}

\* the sum of a list of numbers
RECURSIVE Sum(_)
Sum(seq) == IF seq = <<>> THEN 0 ELSE Head(seq) + Sum(Tail(seq))

\* Math.round(n / d) for n >= 0 and d > 0
RoundDiv(n, d) == (2 * n + d) \div (2 * d)

\* track.popularity as it is
popularityAsIs(popularity) == popularity

\* track.popularity || 50
popularityOr50(popularity) == IF Falsy(popularity) THEN 50 ELSE popularity

\* Math.round(avgObscurity): the mean of calculateObscurityScore(track.popularity || 50)
obscurityScoreOf(tracks) ==
    RoundDiv(Sum([i \in 1..Len(tracks) |->
                    calculateObscurityScore(popularityOr50(tracks[i]))]),
             Len(tracks))

\* avgFeatures, in hundredths: the sums of (curr.valence || 0) and
\* (curr.energy || 0) over the features that are not null, divided by their
\* number when there is one (the lists tried have whole averages)
avgFeaturesOf(features) ==
    LET valid == SelectSeq(features, LAMBDA f : f # NullFeature)
        validFeatures == Len(valid)
        valence == Sum([i \in 1..validFeatures |-> valid[i].valence])
        energy == Sum([i \in 1..validFeatures |-> valid[i].energy])
    IN  IF validFeatures > 0
        THEN [valence |-> valence \div validFeatures, energy |-> energy \div validFeatures]
        ELSE [valence |-> valence, energy |-> energy]

\* Math.round(calculateMoodScore(avgFeatures.valence, avgFeatures.energy))
moodScoreOf(features) ==
    LET avgFeatures == avgFeaturesOf(features)
    IN  RoundDiv(calculateMoodScore(avgFeatures.valence, avgFeatures.energy), Scale)

NoStats == [obscurityScore |-> Absent, moodScore |-> Absent]
PageIdle ==
    [name |-> "none", pc |-> "idle", loading |-> FALSE, error |-> FALSE,
     tracks |-> <<>>, stats |-> NoStats]

\* a page as it is mounted: the dashboard starts with loading true
PageMounted(name) == [PageIdle EXCEPT !.name = name, !.loading = (name = "dashboard")]

\* the handler of a page starts: without an access token it does nothing
\* more; the dashboard stops at a session with the refresh error; the others
\* set loading, clear the error and await the tracks
StartPage(name, session) ==
    LET shown == IF page.name = name THEN page ELSE PageMounted(name)
    IN  /\ page.pc \in {"idle", "done"}
        /\ page' =
             IF session.accessToken = NoString
             THEN [shown EXCEPT !.pc = "done", !.tracks = <<>>]
             ELSE IF name = "dashboard" /\ session.error = "RefreshAccessTokenError"
             THEN [shown EXCEPT !.pc = "done", !.tracks = <<>>,
                                !.error = TRUE, !.loading = FALSE]
             ELSE [shown EXCEPT !.pc = "tracks", !.tracks = <<>>,
                                !.error = FALSE,
                                !.loading = IF name = "dashboard" THEN @ ELSE TRUE]
    /\ UNCHANGED calc
    /\ UNCHANGED scoreOnly

\* the tracks arrive, or the request for them fails: without tracks the
\* handler ends with an error, with tracks it awaits their features
TracksAnswered(ok, tracks) ==
    /\ page.pc = "tracks"
    /\ page' =
         IF ~ok \/ tracks = <<>>
         THEN [page EXCEPT !.pc = "done", !.error = TRUE, !.loading = FALSE]
         ELSE [page EXCEPT !.pc = "features", !.tracks = tracks]
    /\ UNCHANGED calc
    /\ UNCHANGED scoreOnly

\* the features arrive, or getTrackFeatures throws: the dashboard ends with
\* an error when there are none, and otherwise the stats are set
FeaturesAnswered(ok, features) ==
    /\ page.pc = "features"
    /\ page' =
         IF ~ok \/ (page.name = "dashboard" /\ features = <<>>)
         THEN [page EXCEPT !.pc = "done", !.error = TRUE, !.loading = FALSE]
         ELSE [page EXCEPT !.pc = "done", !.loading = FALSE,
                           !.stats = [obscurityScore |-> obscurityScoreOf(page.tracks),
                                      moodScore |-> moodScoreOf(features)]]
    /\ UNCHANGED calc
    /\ UNCHANGED scoreOnly

StatsNext ==
    \/ \E name \in Pages, session \in Sessions : StartPage(name, session)
    \/ \E ok \in BOOLEAN, tracks \in TrackLists : TracksAnswered(ok, tracks)
    \/ \E ok \in BOOLEAN, features \in FeatureLists : FeaturesAnswered(ok, features)

ScoreInit ==
    /\ calc = NoCall
    /\ page = PageIdle

(***************************************************************************)
(* The specifications                                                      *)
(***************************************************************************)
Init == QueueInit /\ RetryInit /\ RecoInit /\ DashInit /\ IdleServer /\ ApiInit /\ IdleApi /\ JwtInit /\ ScoreInit

\* the specifications of the cascades start in any of the sessions
InitAnyServer ==
    QueueInit /\ RetryInit /\ RecoInit /\ DashInit /\ AnyServer /\ ApiInit /\ IdleApi
    /\ JwtInit /\ ScoreInit

\* the specification of the data functions starts with any of the scripts
InitAnyApi ==
    QueueInit /\ RetryInit /\ RecoInit /\ DashInit /\ IdleServer /\ ApiInit /\ AnyApi
    /\ JwtInit /\ ScoreInit

QueueSpec == Init /\ [][QueueNext]_vars

RetrySpec == Init /\ [][RetryNext]_vars

RecoSpec == InitAnyServer /\ [][RecoNext]_vars

DashSpec == InitAnyServer /\ [][DashNext]_vars

ApiSpec == InitAnyApi /\ [][ApiNext]_vars

JwtSpec == Init /\ [][JwtNext]_vars

ScoreSpec == Init /\ [][ScoreNext]_vars

StatsSpec == Init /\ [][StatsNext]_vars

\* every function a task runs eventually settles its promise
QueueFairSpec ==
    QueueSpec /\ \A t \in Tasks : WF_vars(\E ok \in BOOLEAN : Settle(t, ok))

(***************************************************************************)
(* Claims about the RequestQueue                                           *)
(***************************************************************************)
Settled(t) == promise[t].state \in {"resolved", "rejected"}
Waiting(t) == fnState[t] = "queued"

\* C1: the number of task functions in progress at the same time never
\* exceeds maxConcurrent, neither between two steps nor inside one.
C1_AtMostMaxConcurrent ==
    /\ Cardinality(InProgress(QState)) <= maxConcurrent
    /\ peak <= maxConcurrent

\* more tasks than slots were submitted and every slot is taken
C1_Witness ==
    /\ Cardinality(InProgress(QState)) = maxConcurrent
    /\ \E t \in Tasks : Waiting(t)
    /\ \E t \in Tasks : fnOutcome[t].kind = "failed"

\* C2: every submitted task is started at most once and settled at most once
\* at any time, and, when every function settles, from some point on every
\* task handed to add has been started exactly once and has its promise
\* settled exactly once: none is dropped, run twice or left waiting.
C2_EveryTaskExactlyOnce ==
    /\ [](\A t \in Tasks : startCount[t] <= 1 /\ settleCount[t] <= 1)
    /\ <>[](\A t \in Tasks :
               (fnState[t] # "none") =>
                   (Settled(t) /\ startCount[t] = 1 /\ settleCount[t] = 1))

\* all tasks, more than there are slots, were started and settled once
C2_Witness ==
    /\ NumTasks > maxConcurrent
    /\ \A t \in Tasks : Settled(t) /\ startCount[t] = 1 /\ settleCount[t] = 1
    /\ \E t \in Tasks : promise[t].state = "rejected"
    /\ \E t \in Tasks : promise[t].state = "resolved"

\* C3: a step that starts a task leaves no earlier submitted task waiting, and
\* a step in which a running task completes starts the oldest waiting task.
C3_FifoAdmission ==
    [][ /\ \A t \in Tasks :
              (startCount'[t] > startCount[t]) =>
                  \A u \in Tasks : (u < t) => ~Waiting(u)'
        /\ \A t \in Tasks :
              (fnState[t] = "running" /\ fnState'[t] = "finished" /\ Len(queue) > 0) =>
                  LET oldest == CHOOSE u \in Tasks :
                                    Waiting(u) /\ \A w \in Tasks : Waiting(w) => u <= w
                  IN  startCount'[oldest] = startCount[oldest] + 1
      ]_vars

\* a completion admitted the older of two waiting tasks, the newer still waits
C3_Witness ==
    \E t, u \in Tasks :
        /\ t < u
        /\ t > maxConcurrent
        /\ fnState[t] = "running"
        /\ Waiting(u)

\* C4: a settled promise carries the outcome of its own task's function, and
\* a step in which a task fails rejects that task's promise with its error,
\* leaves the counter equal to the functions in progress, starts the oldest
\* waiting task, and changes no other promise except to that task's own outcome.
OwnOutcome(t) ==
    /\ promise[t].state = "resolved" =>
           fnOutcome[t] = [kind |-> "fulfilled", value |-> promise[t].value]
    /\ promise[t].state = "rejected" =>
           fnOutcome[t] = [kind |-> "failed", value |-> promise[t].value]

C4_FailureIsIsolated ==
    [][ \A t \in Tasks :
          (fnState[t] = "running" /\ fnOutcome'[t].kind = "failed") =>
              /\ promise'[t] = [state |-> "rejected", value |-> fnOutcome'[t].value]
              /\ running' = Cardinality(InProgress(QState))'
              /\ running' <= running
              /\ (Len(queue) > 0) => startCount'[Head(queue)] = 1
              /\ \A u \in Tasks \ {t} :
                    /\ OwnOutcome(u)'
                    /\ (fnState[u] = "running") => (fnState'[u] = "running" /\ promise'[u] = Pending)
                    /\ Settled(u) => promise'[u] = promise[u]
      ]_vars

\* a task failed while another was waiting; the other ran and resolved
C4_Witness ==
    \E t, u \in Tasks :
        /\ t < u
        /\ u > maxConcurrent
        /\ promise[t].state = "rejected"
        /\ fn[t].kind = "async"
        /\ promise[u].state = "resolved"
        /\ OwnOutcome(u)

(***************************************************************************)
(* Claims about retryableSpotifyCall                                       *)
(***************************************************************************)
RetryDone == rpc \in {"returned", "thrown"}
Failed(k) == calls[k].out # NoResult /\ ~calls[k].out.ok
FailedWith(k, codes) == Failed(k) /\ calls[k].out.error.statusCode \in codes
AllFailedNonAuth ==
    \A k \in 1..Len(calls) : Failed(k) /\ ~FailedWith(k, {401, 403})

\* C5: when the first invocation fails with status 401 or 403, the call has
\* thrown that very error, the operation was invoked once, and there was no
\* wait, whatever maxRetries is.
C5_AuthErrorNotRetried ==
    (Len(calls) >= 1 /\ FailedWith(1, {401, 403})) =>
        /\ rpc = "thrown"
        /\ Len(calls) = 1
        /\ waits = <<>>
        /\ clock = 0
        /\ retryResult = [kind |-> "threw", error |-> calls[1].out.error]

\* a 403 on the first invocation, with a budget of several attempts
C5_Witness ==
    /\ Len(calls) = 1
    /\ FailedWith(1, {403})
    /\ maxRetries = DefaultMaxRetries
    /\ rpc = "thrown"

\* C6: the operation is invoked at most maxRetries times; when the call has
\* ended and every invocation failed with a non-auth error it was invoked
\* exactly maxRetries times; an invocation that succeeds is the last one, and
\* the call returns its result.
C6_AtMostMaxRetriesInvocations ==
    /\ Len(calls) <= maxRetries
    /\ (RetryDone /\ AllFailedNonAuth) => Len(calls) = maxRetries
    /\ \A k \in 1..Len(calls) :
           (calls[k].out # NoResult /\ calls[k].out.ok) =>
               /\ k = Len(calls)
               /\ rpc = "returned"
               /\ retryResult = [kind |-> "returned", value |-> calls[k].out.value]

\* the default budget was used up by three failures
C6_Witness ==
    /\ maxRetries = DefaultMaxRetries
    /\ Len(calls) = DefaultMaxRetries
    /\ rpc = "thrown"
    /\ AllFailedNonAuth

\* a retry-after header that writes a number of seconds
WellFormedSeconds(h) == \E n \in RetryAfterSeconds : h = ToDigits(n)
SecondsOf(h) == CHOOSE n \in RetryAfterSeconds : h = ToDigits(n)

\* the waits that followed attempt k
WaitsAfter(k) == {i \in 1..Len(waits) : waits[i].after = k}

\* C7: every failed attempt k that is followed by attempt k+1 is followed by
\* exactly one wait, of the retry-after seconds for a 429 whose header writes
\* them and of initialDelayMs * 2^(k-1) for a 429 without the header and for
\* any other error; attempt k+1 starts no sooner than that wait after attempt
\* k; and no wait follows the last failed attempt.
C7_OneWaitBetweenAttempts ==
    /\ \A k \in 1..(Len(calls) - 1) :
           LET e == calls[k].out.error
               w == waits[k]
           IN  /\ WaitsAfter(k) = {k}
               /\ (e.statusCode = 429 /\ WellFormedSeconds(e.retryAfter)) =>
                      w.ms = SecondsOf(e.retryAfter) * 1000
               /\ (e.statusCode # 429 \/ e.retryAfter = NoHeader) =>
                      w.ms = initialDelayMs * Pow2(k - 1)
               /\ (e.statusCode = 429 /\ e.retryAfter = ToDigits(2)) =>
                      calls[k + 1].at - calls[k].at >= 2000
               /\ w.ms >= 0 => calls[k + 1].at - calls[k].at >= w.ms
    /\ Len(waits) = IF rpc = "delay" THEN Len(calls) ELSE Max(Len(calls) - 1, 0)
    /\ (rpc = "delay") => attempt < maxRetries

\* a 429 with retry-after: 2 was followed by a second invocation, and a later
\* failure without the header by a third
C7_Witness ==
    /\ Len(calls) = 3
    /\ calls[1].out.error.statusCode = 429
    /\ calls[1].out.error.retryAfter = ToDigits(2)
    /\ calls[2].out.error.statusCode = 500
    /\ rpc = "thrown"

\* C8: when every one of the maxRetries attempts failed with a non-auth
\* error, the call throws a new 'Rate limit exceeded' error if the last
\* failure had status 429 and the last attempt's own error otherwise, and
\* the two differ.
C8_ExhaustionError ==
    (rpc = "thrown" /\ Len(calls) = maxRetries /\ AllFailedNonAuth) =>
        LET last == calls[Len(calls)].out.error
        IN  /\ last.statusCode = 429 => retryResult = RateLimitError
            /\ last.statusCode # 429 => retryResult = [kind |-> "threw", error |-> last]
            /\ (retryResult = RateLimitError) <=> (last.statusCode = 429)

\* the budget ran out on a 429 after an earlier failure of another kind
C8_Witness ==
    /\ rpc = "thrown"
    /\ Len(calls) = maxRetries
    /\ maxRetries >= 2
    /\ AllFailedNonAuth
    /\ calls[1].out.error.statusCode = 500
    /\ calls[Len(calls)].out.error.statusCode = 429
    /\ retryResult = RateLimitError

(***************************************************************************)
(* The genre cascade of fetchRecommendations                               *)
(***************************************************************************)
\* the requests with genre seeds an invocation sent, which come first
GenreRequests(r) == {j \in 1..Len(r.requests) : r.requests[j].seedKind = "genres"}

\* the genre requests whose answer was OK with at least one track
GenreWins(r) == {j \in GenreRequests(r) : j <= Len(r.answers) /\ Len(r.answers[j]) > 0}

\* the invocation ends in this step, a genre combination having worked
EndsOnGenre(i) == inv[i].pc # "done" /\ inv'[i].pc = "done" /\ inv'[i].outcome = "genre"

\* C9: fetchRecommendations tries the genre combinations in the order of
\* their list, request j carrying combination j. It stops at the first
\* answer k that is OK with a non-empty track list, and only at such an
\* answer: exactly k requests have then been sent, all of them with genre
\* seeds and none with track seeds, and the list set for display is the very
\* track list of answer k. Nothing else is on screen when the invocation is
\* the only one made.
C9_FirstWorkingGenreComboWins ==
    [][\A i \in Invocations :
          LET r == inv'[i]
              k == Len(r.requests)
          IN  /\ \A j \in GenreRequests(r) :
                    /\ j <= Len(r.genresToTry)
                    /\ r.requests[j].seeds = r.genresToTry[j]
                    /\ \A h \in 1..j : h \in GenreRequests(r)
              /\ GenreWins(r) # {} =>
                    /\ GenreWins(r) = {k}
                    /\ GenreRequests(r) = 1..k
                    /\ r.pc = "done" /\ r.outcome = "genre"
              /\ EndsOnGenre(i) =>
                    /\ GenreWins(r) = {k}
                    /\ recommendations' = r.answers[k]
                    /\ (Started' = {i} => ~loading' /\ errorMsg' = NoMessage)
      ]_vars

\* only the fourth combination worked: four requests, the fourth answer shown
C9_Witness ==
    \E i \in Invocations :
        /\ inv[i].pc = "done" /\ inv[i].outcome = "genre"
        /\ Len(inv[i].genresToTry) = 4
        /\ Len(inv[i].requests) = 4
        /\ \A j \in 1..4 : inv[i].requests[j].seedKind = "genres"
        /\ inv[i].answers = <<(<<>>), (<<>>), (<<>>), TracksOf(4)>>
        /\ recommendations = TracksOf(4)

(***************************************************************************)
(* The cascade of getRecommendations                                       *)
(***************************************************************************)
\* C10: getRecommendations stops at a remote attempt only if the attempt
\* yielded at least one track, so that a call with limit >= 1 that returns
\* never returns an empty list.
C10_NeverReturnsEmpty ==
    \A c \in RecoCallers :
        (reco[c].pc = "returned" /\ reco[c].limit >= 1) => Len(reco[c].result) >= 1

(***************************************************************************)
(* Genre seeds failing in fetchRecommendations                             *)
(***************************************************************************)
\* the list on display is the one the catch block or the fallback of
\* getRecommendations makes
IsPlaceholderList(tracks) == Len(tracks) > 0 /\ startsWithFallback(tracks[1].id)

\* the invocation ends in this step and sets a placeholder list
EndsOnPlaceholders(i) ==
    /\ inv[i].pc # "done" /\ inv'[i].pc = "done"
    /\ inv'[i].outcome \in {"caught", "lastResort"}
    /\ IsPlaceholderList(recommendations')

\* C11: an invocation of fetchRecommendations in which no genre combination
\* succeeded, however its genre attempts failed, sets a placeholder list
\* only after it went on to the track-seed strategy, which begins with the
\* call of getTopTracks.
C11_TrackSeedsBeforePlaceholders ==
    [][\A i \in Invocations :
          (EndsOnPlaceholders(i) /\ GenreWins(inv'[i]) = {}) => inv'[i].askedTopTracks
      ]_vars

(***************************************************************************)
(* The order of the track-seed attempts                                    *)
(***************************************************************************)
\* the sizes of the seed sets of the track-seed requests, in the order sent
TrackSeedSizes(requests) ==
    LET sent == SelectSeq(requests, LAMBDA q : q.seedKind = "tracks")
    IN  [j \in 1..Len(sent) |-> Len(sent[j].seeds)]

\* from min(valid, 5) down, each request one seed smaller than the one before
ShrinkingFrom(sizes, valid) ==
    \A j \in 1..Len(sizes) : sizes[j] = Min(valid, 5) - (j - 1) /\ sizes[j] >= 1

\* C12: both getRecommendations and fetchRecommendations request the subsets
\* of the valid seed tracks in strictly decreasing size, beginning with
\* min(number of valid seeds, 5) and going down to 1 (what fetchRecommendations
\* sends when no seed track is valid is left aside here).
C12_LargerSeedSetsFirst ==
    /\ \A c \in RecoCallers :
          ShrinkingFrom(TrackSeedSizes(reco[c].requests), Len(reco[c].validSeedTracks))
    /\ \A i \in Invocations :
          (inv[i].pc \in {"trackFetch", "trackDelay"} /\ Len(inv[i].validSeedTracks) >= 1) =>
              ShrinkingFrom(TrackSeedSizes(inv[i].requests), Len(inv[i].validSeedTracks))

(***************************************************************************)
(* The placeholders of getRecommendations                                  *)
(***************************************************************************)
\* getRecommendations is over
RecoOver(c) == reco[c].pc \in {"returned", "threw"}

\* exactly limit entries, every id beginning with fallback-
AllPlaceholders(tracks, limit) ==
    Len(tracks) = limit /\ \A k \in 1..Len(tracks) : startsWithFallback(tracks[k].id)

\* the caller gave no genre seed and no track seed of the shape of an id
NoUsableSeed(c) ==
    /\ reco[c].accessToken # ""
    /\ reco[c].call.seedGenres = <<>>
    /\ \A k \in 1..Len(reco[c].call.seedTracks) : ~validTrackId(reco[c].call.seedTracks[k])

\* C13: a call of getRecommendations with no genre seed and no track seed
\* that is 22 letters or digits returns exactly limit entries whose ids all
\* begin with fallback-.
C13_NoSeedsGivesPlaceholders ==
    \A c \in RecoCallers :
        (RecoOver(c) /\ NoUsableSeed(c)) =>
            reco[c].pc = "returned" /\ AllPlaceholders(reco[c].result, reco[c].limit)

\* fallback-0 .. fallback-(limit-1), in this order
ExactPlaceholders(tracks, limit) ==
    /\ Len(tracks) = limit
    /\ \A k \in 1..Len(tracks) : tracks[k].id = <<"fallback-", k - 1>>
    /\ \A k, h \in 1..Len(tracks) : k # h => tracks[k].id # tracks[h].id

\* every request the call sent was answered with an error
EveryAttemptFailed(c) ==
    /\ Len(reco[c].requests) >= 1
    /\ Len(reco[c].answers) = Len(reco[c].requests)
    /\ \A j \in 1..Len(reco[c].answers) : reco[c].answers[j] = "error"

\* C14: when every remote attempt of a call of getRecommendations failed,
\* the genre attempt and every track-seed attempt alike, the call does not
\* throw: it returns exactly limit placeholders, with the pairwise distinct
\* ids fallback-0 .. fallback-(limit-1).
C14_AllAttemptsFailedGivesPlaceholders ==
    \A c \in RecoCallers :
        (RecoOver(c) /\ EveryAttemptFailed(c)) =>
            reco[c].pc = "returned" /\ ExactPlaceholders(reco[c].result, reco[c].limit)

\* a genre attempt and five track-seed attempts failed, two placeholders came
C14_Witness ==
    /\ reco[DirectCaller].pc = "returned"
    /\ EveryAttemptFailed(DirectCaller)
    /\ Len(reco[DirectCaller].requests) = 6
    /\ reco[DirectCaller].requests[1].seedKind = "genres"
    /\ reco[DirectCaller].limit = 2
    /\ reco[DirectCaller].result = <<[id |-> <<"fallback-", 0>>], [id |-> <<"fallback-", 1>>]>>

(***************************************************************************)
(* The fallback warning of the Recommendations component                   *)
(***************************************************************************)
\* C15: whenever no invocation of fetchRecommendations or tryWithGenres is in
\* flight, however the invocations made so far interleaved, usingFallback is
\* true exactly when the list held for display is the synthetic list of
\* ids beginning with fallback-.
C15_WarningIffPlaceholders ==
    InFlight = {} => (usingFallback <=> IsPlaceholderList(recommendations))

(***************************************************************************)
(* The data functions and the retry wrapper                                *)
(***************************************************************************)
DataFunctions == {"getTopTracks", "getUserPlaylists"}

\* the requests answered for a call so far that met the given status
AnsweredWith(c, status) == {j \in 1..Len(api[c].http) : api[c].http[j].status = status}

\* C16: when the API answers a request made through getTopTracks or
\* getUserPlaylists with 401, that call sends exactly one HTTP request, makes
\* no backoff wait and surfaces the failure.
C16_Http401NotRetried ==
    \A c \in ApiCalls :
        (api[c].kind \in DataFunctions /\ AnsweredWith(c, 401) # {}) =>
            /\ Len(api[c].http) = 1
            /\ api[c].waits = <<>>
            /\ api[c].pc = "done" /\ api[c].result.kind = "threw"

\* C17: at no time are more than 3 requests to the API in flight.
C17_AtMostThreeOutbound == outboundInFlight <= maxConcurrent

\* the concatenation of a sequence of sequences
RECURSIVE Flatten(_)
Flatten(seqs) == IF seqs = <<>> THEN <<>> ELSE Head(seqs) \o Flatten(Tail(seqs))

\* the ids of the chunk requests answered for a call, in order
ChunkRequestIds(c) ==
    LET sent == SelectSeq(api[c].http, LAMBDA q : q.queued)
    IN  [j \in 1..Len(sent) |-> sent[j].ids]

\* the call of getTrackFeatures is over and every request of it met 200
AllWentWell(c) ==
    /\ api[c].kind = "getTrackFeatures" /\ api[c].pc = "done"
    /\ Len(api[c].http) > 0
    /\ \A j \in 1..Len(api[c].http) : api[c].http[j].status = 200

\* C18: whatever list of track ids getTrackFeatures is given, every
\* audio-features request it sends carries between 1 and 100 ids; the chunks
\* it makes, taken in order, concatenate to the list given, every chunk but
\* the last holding exactly 100; and when all goes well the chunk requests
\* sent carry exactly these chunks, one after the other.
C18_ChunksOfAtMost100 ==
    \A c \in ApiCalls :
        api[c].kind = "getTrackFeatures" =>
            /\ \A j \in 1..Len(api[c].http) :
                  Len(api[c].http[j].ids) >= 1 /\ Len(api[c].http[j].ids) <= 100
            /\ api[c].chunks # <<>> =>
                  /\ Flatten(api[c].chunks) = api[c].trackIds
                  /\ \A k \in 1..Len(api[c].chunks) :
                        /\ Len(api[c].chunks[k]) >= 1 /\ Len(api[c].chunks[k]) <= 100
                        /\ k < Len(api[c].chunks) => Len(api[c].chunks[k]) = 100
            /\ AllWentWell(c) =>
                  /\ ChunkRequestIds(c) = api[c].chunks
                  /\ Flatten(ChunkRequestIds(c)) = api[c].trackIds

\* 101 ids were asked for in a request of 100 and a request of 1
C18_Witness ==
    \E c \in ApiCalls :
        /\ AllWentWell(c)
        /\ Len(api[c].trackIds) = 101
        /\ Len(ChunkRequestIds(c)) = 2
        /\ Len(ChunkRequestIds(c)[1]) = 100 /\ Len(ChunkRequestIds(c)[2]) = 1
        /\ api[c].result.value = featuresOf(api[c].trackIds)

\* C19: when the audio-features endpoint answers a request of
\* getTrackFeatures with 403, probe or chunk request, the call ends there:
\* nothing is sent or waited for after that answer, and the call returns one
\* default record per track id given, whatever it had collected.
C19_Http403ShortCircuits ==
    \A c \in ApiCalls :
        (api[c].kind = "getTrackFeatures" /\ AnsweredWith(c, 403) # {}) =>
            /\ AnsweredWith(c, 403) = {Len(api[c].http)}
            /\ api[c].pc = "done"
            /\ api[c].result = [kind |-> "returned", value |-> fallbackFeatures(api[c].trackIds)]

(***************************************************************************)
(* Claims about the jwt callback                                           *)
(***************************************************************************)
\* the calls of the callback that were not a sign in
SessionReads == {c \in JwtStarted : ~jwt[c].signIn}

\* the token the call was given holds an expiry, and the call came before it
CameBeforeExpiry(c) ==
    /\ jwt[c].token.accessTokenExpires \notin {Absent, NaN}
    /\ jwt[c].at < jwt[c].token.accessTokenExpires

\* C20: a call of the jwt callback that is not a sign in and comes before the
\* expiry of the token it is given returns that token unchanged and sends no
\* refresh request; one that comes at or after the expiry, or whose token
\* holds no expiry, sends exactly one refresh-token request.
C20_RefreshOnlyWhenExpired ==
    \A c \in SessionReads :
        IF CameBeforeExpiry(c)
        THEN /\ jwt[c].pc = "done"
             /\ jwt[c].result = jwt[c].token
             /\ jwt[c].requests = <<>>
        ELSE jwt[c].requests = <<refreshRequest(jwt[c].token)>>

\* one session read came before the expiry and got its token back, another
\* came at the very ms of the expiry and ended with a refreshed token, and a
\* third was given a token whose expiry is not a number
C20_Witness ==
    \E c1, c2, c3 \in SessionReads :
        /\ CameBeforeExpiry(c1) /\ jwt[c1].pc = "done"
        /\ jwt[c1].result = jwt[c1].token
        /\ jwt[c2].at = jwt[c2].token.accessTokenExpires
        /\ jwt[c2].pc = "done"
        /\ jwt[c2].result.accessToken = "refreshed access token"
        /\ Len(jwt[c2].requests) = 1
        /\ jwt[c3].token.accessTokenExpires = NaN
        /\ Len(jwt[c3].requests) = 1

\* the refresh request of call c was answered ok with a body that is JSON
RefreshSucceeds(c) == jwt[c].response.kind = "json" /\ jwt[c].response.ok

\* the calls whose refresh request is over, well or not
RefreshesOver == {c \in SessionReads : jwt[c].pc = "done" /\ jwt[c].requests # <<>>}

\* C21: when refreshAccessToken ends well, the token it returns holds the
\* access token of the response and the expiry Date.now() + expires_in * 1000;
\* its refresh token is the one of the token given when the response carries
\* none, and the one of the response otherwise; the user is as it was.
C21_RefreshKeepsRefreshToken ==
    [][\A c \in JwtCalls :
          (jwt[c].pc = "json" /\ jwt'[c].pc = "done" /\ RefreshSucceeds(c)) =>
              LET data == jwt[c].response
                  old == jwt[c].token
                  new == jwt'[c].result
              IN  /\ new.accessToken = data.access_token
                  /\ data.expires_in # Absent =>
                        new.accessTokenExpires = now + data.expires_in * 1000
                  /\ new.refreshToken =
                        IF data.refresh_token = NoString
                        THEN old.refreshToken ELSE data.refresh_token
                  /\ new.user = old.user
                  /\ cookie' = new]_vars

\* a refresh without a new refresh token kept the one of the sign in and
\* moved the expiry, and a refresh with a new one took it
C21_Witness ==
    \E c1, c2 \in RefreshesOver :
        /\ RefreshSucceeds(c1) /\ jwt[c1].response.refresh_token = NoString
        /\ jwt[c1].result.refreshToken = "refresh token of the sign in"
        /\ jwt[c1].result.accessToken = "refreshed access token"
        /\ jwt[c1].token.accessToken = "access token of the sign in"
        /\ jwt[c1].result.accessTokenExpires > jwt[c1].token.accessTokenExpires
        /\ RefreshSucceeds(c2) /\ jwt[c2].response.refresh_token # NoString
        /\ jwt[c2].result.refreshToken = "rotated refresh token"

\* C22: when the refresh request fails, by a response that is not ok, a body
\* that cannot be read or a request that never got through, the callback still
\* returns: the token returned has error 'RefreshAccessTokenError' and the
\* access token, refresh token, expiry and user of the token given, and the
\* session built from it carries the error.
C22_RefreshFailureFlagsError ==
    \A c \in RefreshesOver :
        ~RefreshSucceeds(c) =>
            /\ jwt[c].result = [jwt[c].token EXCEPT !.error = "RefreshAccessTokenError"]
            /\ sessionOf(jwt[c].result).error = "RefreshAccessTokenError"
            /\ sessionOf(jwt[c].result).accessToken = jwt[c].token.accessToken

\* a refresh failed in each of the three ways
C22_Witness ==
    \E c1, c2, c3 \in RefreshesOver :
        /\ jwt[c1].response.kind = "network failure"
        /\ jwt[c2].response.kind = "not json"
        /\ jwt[c3].response.kind = "json" /\ ~jwt[c3].response.ok
        /\ \A c \in {c1, c2, c3} :
              /\ jwt[c].result.error = "RefreshAccessTokenError"
              /\ jwt[c].result.accessToken = "access token of the sign in"

\* C27: the token a refresh returns, and the session built from it, carry the
\* error flag exactly when that refresh failed: a refresh that succeeds
\* returns a token without it, whatever happened before.
C27_ErrorIffLastRefreshFailed ==
    \A c \in RefreshesOver :
        /\ (jwt[c].result.error # NoString) <=> ~RefreshSucceeds(c)
        /\ (sessionOf(jwt[c].result).error # NoString) <=> ~RefreshSucceeds(c)

(***************************************************************************)
(* Claims about the scores                                                 *)
(***************************************************************************)
\* C23: for every popularity p in 0..100, calculateObscurityScore(p) is 100 - p.
C23_ObscurityIs100MinusPopularity ==
    (calc.fn = "calculateObscurityScore" /\ calc.args[1] \in 0..100) =>
        calc.result = 100 - calc.args[1]

\* popularity 30 gave 70
C23_Witness ==
    calc.fn = "calculateObscurityScore" /\ calc.args[1] = 30 /\ calc.result = 70

\* C24: whatever they are given, a popularity below 0 or above 100, a valence
\* or an energy below 0 or above 1, any number of genres, the three score
\* functions return a number from 0 to 100 (the mood score in hundredths).
C24_ScoresWithin0And100 ==
    /\ calc.fn \in {"calculateObscurityScore", "calculateDiversityScore"} =>
          calc.result >= 0 /\ calc.result <= 100
    /\ calc.fn = "calculateMoodScore" =>
          calc.result >= 0 /\ calc.result <= 100 * Scale

\* more than 20 different genres gave 100
C24_Witness ==
    /\ calc.fn = "calculateDiversityScore"
    /\ Cardinality({calc.args[1][i] : i \in 1..Len(calc.args[1])}) > 20
    /\ calc.result = 100

\* valence and energy from 0 to 1, in hundredths
UnitHundredths == {h \in Hundredths : h >= 0 /\ h <= Scale}

\* C25: for valence and energy from 0 to 1, calculateMoodScore is
\* ((valence + energy) / 2) * 100, and a higher valence with the same energy,
\* or a higher energy with the same valence, never gives a lower score.
C25_MoodMonotonic ==
    (/\ calc.fn = "calculateMoodScore"
     /\ calc.args[1] \in UnitHundredths /\ calc.args[2] \in UnitHundredths) =>
        /\ 2 * calc.result = (calc.args[1] + calc.args[2]) * 100
        /\ \A higher \in UnitHundredths :
              /\ higher >= calc.args[1] =>
                    calculateMoodScore(higher, calc.args[2]) >= calc.result
              /\ higher >= calc.args[2] =>
                    calculateMoodScore(calc.args[1], higher) >= calc.result

\* valence 0.25 and energy 0.5 gave 37.5
C25_Witness ==
    /\ calc.fn = "calculateMoodScore"
    /\ calc.args = <<25, 50>>
    /\ calc.result = 3750

\* the page has set its stats from tracks that all have a popularity in 0..100
StatsShown ==
    /\ page.pc = "done" /\ ~page.error /\ page.tracks # <<>>
    /\ \A i \in 1..Len(page.tracks) : page.tracks[i] \in 0..100

\* C26: the obscurity score a page shows is the rounded mean, over the tracks
\* it fetched, of 100 minus the popularity of each, whatever the popularities
\* in 0..100 are, 0 included.
C26_ObscurityShownIsMean ==
    StatsShown =>
        page.stats.obscurityScore =
            RoundDiv(Sum([i \in 1..Len(page.tracks) |-> 100 - page.tracks[i]]),
                     Len(page.tracks))

(***************************************************************************)
(* Further claims about the RequestQueue and the Recommendations component *)
(***************************************************************************)
\* C28: between the operations of the queue, when a task waits in the queue
\* exactly maxConcurrent tasks are running; this.running is never negative
\* and is the number of task functions started and not yet settled.
C28_WorkConserving ==
    /\ Len(queue) > 0 => running = maxConcurrent
    /\ running >= 0
    /\ running = Cardinality(InProgress(QState))

\* a task has ended, the task that waited behind it was started in its place,
\* and another still waits behind three that run
C28_Witness ==
    /\ Len(queue) > 0
    /\ running = maxConcurrent
    /\ \E t \in Tasks : fnState[t] = "finished"
    /\ \E t \in Tasks : t > maxConcurrent /\ fnState[t] = "running"

\* the list is on the screen: no spinner and no message in its place
ListDisplayed == ~loading /\ errorMsg = NoMessage /\ shownBy # 0

\* once nothing is in flight, the list on the screen comes from an invocation
\* made for the obscurity level the slider is at
ShowsLatestLevel ==
    (InFlight = {} /\ ListDisplayed) => inv[shownBy].obscurityLevel = obscurityLevel

\* loading is true while an invocation is in flight
LoadingWhileInFlight == InFlight # {} => loading

\* C29: when changes of the obscurity level start invocations of
\* fetchRecommendations that overlap and whose answers come in any order,
\* then once none is in flight the recommendations shown are those obtained
\* for the latest obscurity level, and loading is true as long as one is in
\* flight.
C29_LatestLevelWins == ShowsLatestLevel /\ LoadingWhileInFlight

\* the track-seed requests invocation i sent to /v1/recommendations itself
TrackSeedRequests(i) ==
    {k \in 1..Len(inv[i].requests) : inv[i].requests[k].seedKind = "tracks"}

\* C30: every track-seed request fetchRecommendations sends carries from 1 to
\* 5 track ids, each of which the tracks endpoint had answered OK for; and
\* when none of the top tracks is valid no track-seed request is sent.
C30_TrackSeedsValidated ==
    \A i \in Invocations : \A k \in TrackSeedRequests(i) :
        LET seeds == inv[i].requests[k].seeds
        IN  /\ Len(seeds) >= 1 /\ Len(seeds) <= 5
            /\ \A j \in 1..Len(seeds) : seeds[j] \in KnownTracks

====
